---- MODULE Spec2Model ----
(***************************************************************************)
(* AutoOps incident analysis: the streaming route (app/api/analyze/stream/ *)
(* route.ts) and the synchronous route (app/api/analyze/route.ts).         *)
(*                                                                         *)
(* Text is a sequence of symbols.  A symbol is a piece of model output     *)
(* that no fragment boundary splits; the two delimiters are two symbols    *)
(* each, so that a fragment boundary can fall inside a delimiter.          *)
(***************************************************************************)
EXTENDS Integers, Sequences, FiniteSets, TLC

VARIABLES
    modelText,               \* what the model is going to produce (upstream)
    pos,                     \* symbols of modelText already delivered
    upstream,                \* "open" | "ended" | "failed": the model's stream
    fullText,                \* stream/route.ts:91
    finalSent,               \* stream/route.ts:92
    jsonStarted,             \* stream/route.ts:106
    lastNarrationSentIndex,  \* stream/route.ts:107
    events,                  \* what send() enqueued on the event channel
    pc,                      \* "reading" | "closed": position of start()
    modelJson,               \* the JSON value parsed from the model's answer
    streamReport,            \* data of the stream's final event for modelJson
    syncResponse,            \* body of the synchronous route's response
    renormalized,            \* the normalization steps run on syncResponse
    route,                   \* "sync" | "stream" | "execute": the endpoint
    body,                    \* what req.json() gives for the request
    rpc,                     \* "received" | "enrich" | "model" | "webhook" | "done"
    calls,                   \* the external calls the request has made, in order
    enrichment,              \* outcome of the call to /api/search-context
    externalContext,         \* route.ts:190
    modelResult,             \* outcome of the call to the model
    response,                \* the HTTP response of the request
    loading,                 \* part_003:224
    result,                  \* part_003:223
    approved,                \* part_003:233
    systemStatus,            \* part_003:225
    selectedService,         \* part_003:245
    gotFinal,                \* part_003:341
    analysis,                \* position of analyze(): "idle" | "streaming" |
                             \* "fallback" | "catch-fallback"
    analysesStarted,         \* how many times analyze() passed its guard
    approvedIn,              \* the analysis during which Approve was clicked
    executePosts,            \* the POSTs to /api/execute the page has issued
    executionLogs,           \* part_003:234
    recoveries,              \* the runs of simulateRecovery, each with the
                             \* values its timer callbacks close over
    recoveryInterval,        \* part_003:265: the run whose interval
                             \* recoveryIntervalRef holds, 0 for null
    runs                     \* the invocations of the streaming route under way
                             \* at once, each with the variables it declares

streamVars == <<modelText, pos, upstream, fullText, finalSent, jsonStarted,
                lastNarrationSentIndex, events, pc>>

scoreVars == <<modelJson, streamReport, syncResponse, renormalized>>

reqVars == <<route, body, rpc, calls, enrichment, externalContext, modelResult,
             response>>

recVars == <<executionLogs, recoveries, recoveryInterval>>

uiVars == <<loading, result, approved, systemStatus, selectedService, gotFinal,
            analysis, analysesStarted, approvedIn, executePosts, recVars>>

vars == <<streamVars, scoreVars, reqVars, uiVars, runs>>

-----------------------------------------------------------------------------
(* Bounds of the model *)

MaxSegs == 4
MaxFragLen == 3
MaxServices == 3
MaxNodes == 3
MaxEdges == 2
MaxCauses == 3
MaxCauseLen == 6
MaxSummaries == 2
MaxReplySyms == 3
MaxAnalyses == 2
MaxExecutes == 2

\* recovery runs with callbacks still to fire at one time
MaxLiveRuns == 1

-----------------------------------------------------------------------------
(* Text symbols *)

Narr == "investigating..."
Blank == " "
OpenA == "<FINAL_"
CloseA == "</FINAL_"
TagB == "JSON>"
\* stands for the text {"severity_score":90}
Payload90 == "{severity_score:90}"
\* the JSON text null
PayloadNull == "null"

OpenTag == <<OpenA, TagB>>
CloseTag == <<CloseA, TagB>>

Segments == {<<Narr>>, <<Blank>>, OpenTag, CloseTag, <<Payload90>>, <<PayloadNull>>}

RECURSIVE Flatten(_)
Flatten(ss) == IF ss = <<>> THEN <<>> ELSE Head(ss) \o Flatten(Tail(ss))

SegSeqs == UNION {[1..n -> Segments] : n \in 0..MaxSegs}

ModelTexts == {Flatten(ss) : ss \in SegSeqs}

-----------------------------------------------------------------------------
(* String primitives, 0-based as in JavaScript *)

Slice(s, a, b) == SubSeq(s, a + 1, b)

MatchesAt(s, t, i) ==
    /\ i + Len(t) <= Len(s)
    /\ \A k \in 1..Len(t) : s[i + k] = t[k]

IndexOf(s, t) ==
    LET hits == {i \in 0..Len(s) : MatchesAt(s, t, i)}
    IN  IF hits = {} THEN -1 ELSE CHOOSE i \in hits : \A j \in hits : i <= j

RECURSIVE TrimStart(_)
TrimStart(s) ==
    IF s # <<>> /\ Head(s) = Blank THEN TrimStart(Tail(s)) ELSE s

RECURSIVE TrimEnd(_)
TrimEnd(s) ==
    IF s # <<>> /\ s[Len(s)] = Blank THEN TrimEnd(SubSeq(s, 1, Len(s) - 1)) ELSE s

Trim(s) == TrimEnd(TrimStart(s))

-----------------------------------------------------------------------------
(* JSON values as JSON.parse returns them.  A number is held in halves     *)
(* (x stands for x/2), so that the fractional inputs 42.5 or 0.5 are       *)
(* values and Math.round has something to round.                           *)

Undefined == [k |-> "undefined"]
Null == [k |-> "null"]
NaN == [k |-> "nan"]
Infinity == [k |-> "infinity"]
NumV(x) == [k |-> "number", x |-> x]
StrV(s) == [k |-> "string", s |-> s]
ArrV(a) == [k |-> "array", a |-> a]

\* the integer n as a number in halves, and back
OfInt(n) == n + n
IsInt(x) == x % (1 + 1) = 0
Whole(x) == x \div (1 + 1)

\* Math.round: to the nearest integer, ties towards +Infinity
MathRound(x) == OfInt((x + 1) \div (1 + 1))

MathMax(a, b) == IF a >= b THEN a ELSE b
MathMin(a, b) == IF a <= b THEN a ELSE b

\* the strings of the model that are numeric literals, with their values
StringToNumber(s) ==
    CASE s = "" -> NumV(0)
      [] s = " " -> NumV(0)
      [] s = "90" -> NumV(OfInt(90))
      [] OTHER -> NaN

\* Number(v)
Number(v) ==
    CASE v.k = "number" -> v
      [] v.k = "infinity" -> Infinity
      [] v.k = "null" -> NumV(0)
      [] v.k = "string" -> StringToNumber(v.s)
      [] OTHER -> NaN

NumberIsFinite(n) == n.k = "number"

IsArray(v) == v.k = "array"

\* typeof v === "object" && v (a non-null object or array)
IsObjectLike(v) == v.k \in {"object", "array"}

\* s?.field of an element: a non-object element has no fields
Field(v, f) == IF v.k = "object" /\ f \in DOMAIN v THEN v[f] ELSE Undefined

ArrayLength(v) == IF IsArray(v) THEN Len(v.a) ELSE 0

CountWhere(a, P(_)) == Cardinality({i \in 1..Len(a) : P(a[i])})

-----------------------------------------------------------------------------
(* Helpers the two routes share *)

clamp(n, min, max) == MathMin(max, MathMax(min, n))

\* Math.round(p / q) for integers p >= 0, q > 0
RoundRatio(p, q) == (p + p + q) \div (q + q)

\* the counts whose double ratio falls short of a tie the exact ratio reaches
\* (IEEE 754 doubles, for at most 24 services): 23/40 * 100 is 57.49999999999999
DoubleRatioBelowTie(down, degraded, total) ==
    total = 20 /\ down + down + degraded = 23

\* Math.round(((down + degraded * 0.5) / total) * 100): the double ratio rounds
\* a tie up unless it falls short of it
RoundedPercent(down, degraded, total) ==
    IF DoubleRatioBelowTie(down, degraded, total)
    THEN ((down + down + degraded) * 50) \div total
    ELSE RoundRatio((down + down + degraded) * 50, total)

\* ai * 0.5 + det * 0.3 + blast * 0.2 of whole scores, in tenths
BlendTenths(ai, det, blast) == 5 * ai + 3 * det + 2 * blast

\* the whole scores whose double sum falls short of a tie the exact sum reaches
\* (IEEE 754 doubles, for at most 5 nodes, 4 edges and 5 services)
DoubleSumBelowTie(ai, det, blast) ==
    \/ det = 18 /\ blast = 13 /\ ai \in 7..15
    \/ det = 23 /\ blast = 13 /\ ai \in 4..12
    \/ det = 57 /\ blast = 17 /\ ai \in 30..86
    \/ det = 57 /\ blast = 67 /\ ai \in 30..66

\* Math.round(aiImpact * 0.5 + deterministicImpact * 0.3 + blastRadiusScore * 0.2)
\* on whole scores: the double sum rounds a tie up unless it falls short of it
WeightedBlend(ai, det, blast) ==
    IF BlendTenths(ai, det, blast) % 10 = 5 /\ DoubleSumBelowTie(ai, det, blast)
    THEN BlendTenths(ai, det, blast) \div 10
    ELSE (BlendTenths(ai, det, blast) + 5) \div 10

-----------------------------------------------------------------------------
(* Hybrid scoring of the streaming route, on the object JSON.parse returned *)

\* safeInt without Math.round
safeInt_noRound(v, fallback) ==
    LET n == Number(v)
    IN  IF NumberIsFinite(n) THEN clamp(n.x, OfInt(0), OfInt(100)) ELSE fallback

safeInt(v, fallback) ==
    LET n == Number(v)
    IN  IF NumberIsFinite(n) THEN clamp(MathRound(n.x), OfInt(0), OfInt(100))
        ELSE fallback

safeProb(v) ==
    LET n == Number(v)
    IN  IF NumberIsFinite(n) THEN clamp(n.x, OfInt(0), OfInt(1)) ELSE 0

StatusIs(s, status) == Field(s, "status") = StrV(status)

\* every affected service weighted alike
calculateSeverityFromServices_stream_flat(svcs) ==
    clamp(OfInt(35 * CountWhere(svcs, LAMBDA s : StatusIs(s, "down"))
                + 35 * CountWhere(svcs, LAMBDA s : StatusIs(s, "degraded"))),
          OfInt(0), OfInt(100))

calculateSeverityFromServices_stream(svcs) ==
    clamp(OfInt(35 * CountWhere(svcs, LAMBDA s : StatusIs(s, "down"))
                + 15 * CountWhere(svcs, LAMBDA s : StatusIs(s, "degraded"))),
          OfInt(0), OfInt(100))

calculateBlastRadius_stream(svcs) ==
    LET total == Len(svcs)
        down == CountWhere(svcs, LAMBDA s : StatusIs(s, "down"))
        degraded == CountWhere(svcs, LAMBDA s : StatusIs(s, "degraded"))
    IN  IF total = 0 THEN 0
        ELSE clamp(OfInt(RoundedPercent(down, degraded, total)),
                   OfInt(0), OfInt(100))

calculateImpactFromPropagation_stream(prop) ==
    clamp(OfInt(ArrayLength(Field(prop, "nodes")) * 5
                + ArrayLength(Field(prop, "edges")) * 8),
          OfInt(0), OfInt(100))

EmptyPropagation == [k |-> "object", nodes |-> ArrV(<<>>), edges |-> ArrV(<<>>)]

\* stream/route.ts:173-242: the three fields the route overwrites on parsed
HybridScoring(parsed) ==
    LET services == IF IsArray(parsed.services) THEN parsed.services.a ELSE <<>>
        propagation == IF IsObjectLike(parsed.propagation)
                       THEN parsed.propagation ELSE EmptyPropagation
        aiSeverity == safeInt(parsed.severity_score, 0)
        aiImpact == safeInt(parsed.business_impact_score, 0)
        deterministicSeverity == calculateSeverityFromServices_stream(services)
        deterministicImpact == calculateImpactFromPropagation_stream(propagation)
        blastRadiusScore == calculateBlastRadius_stream(services)
    IN  [parsed EXCEPT
            !.severity_score =
                NumV(clamp(MathMax(aiSeverity, deterministicSeverity),
                           OfInt(0), OfInt(100))),
            !.business_impact_score =
                NumV(clamp(OfInt(WeightedBlend(Whole(aiImpact),
                                               Whole(deterministicImpact),
                                               Whole(blastRadiusScore))),
                           OfInt(0), OfInt(100))),
            !.confidence = NumV(safeProb(parsed.confidence))]

-----------------------------------------------------------------------------
(* The streaming route: ReadableStream.start *)

MissingFields ==
    [k |-> "object",
     incident_type |-> Undefined, executive_summary |-> Undefined,
     severity_score |-> Undefined, business_impact_score |-> Undefined,
     estimated_recovery_time_minutes |-> Undefined, confidence |-> Undefined,
     probable_causes |-> Undefined, recommended_runbook_steps |-> Undefined,
     services |-> Undefined, propagation |-> Undefined]

\* JSON.parse of a text of the model: the payload symbols are the JSON texts
JSONParse(text) ==
    CASE Trim(text) = <<Payload90>> ->
            [ok |-> TRUE,
             value |-> [MissingFields EXCEPT !.severity_score = NumV(OfInt(90))]]
      [] Trim(text) = <<PayloadNull>> -> [ok |-> TRUE, value |-> Null]
      [] OTHER -> [ok |-> FALSE]

\* stream/route.ts:173-242 throws a TypeError: parsed.services of null, or
\* (module code is strict) the assignment of a property to a number or string
ScoringThrows(parsed) == parsed.k \in {"null", "number", "string"}

\* stream/route.ts:247: the data of the final event as JSON.stringify writes
\* it; the properties assigned to an array are not part of its JSON text
FinalData(parsed) == IF parsed.k = "object" THEN HybridScoring(parsed) ELSE parsed

TokenEvent(text) == [type |-> "token", text |-> text]
FinalEvent(report) == [type |-> "final", data |-> report]
ErrorEvent(message) == [type |-> "error", message |-> message]

\* the narration step forwarding every chunk until the block is complete
NarrationEvents_whole(full, text, started, lastIndex) == <<TokenEvent(text)>>

\* stream/route.ts:118-137: what the narration step sends for this chunk
NarrationEvents(full, text, started, lastIndex) ==
    LET startIndex == IndexOf(full, OpenTag)
        narrationPart == Slice(full, lastIndex, startIndex)
    IN  IF started THEN <<>>
        ELSE IF startIndex = -1 THEN <<TokenEvent(text)>>
        ELSE IF Trim(narrationPart) # <<>> THEN <<TokenEvent(narrationPart)>>
        ELSE <<>>

\* stream/route.ts:143-146: the block is complete
BlockComplete(full) ==
    LET start == IndexOf(full, OpenTag)
        end == IndexOf(full, CloseTag)
    IN  start # -1 /\ end # -1 /\ end > start

\* stream/route.ts:147-149
JsonText(full) ==
    Trim(Slice(full, IndexOf(full, OpenTag) + Len(OpenTag), IndexOf(full, CloseTag)))

\* the catch of JSON.parse sending nothing
InvalidJsonEvents_silent == <<>>

\* stream/route.ts:255-258: what the catch of the parse and scoring block sends
InvalidJsonEvents == <<ErrorEvent("Invalid JSON structure from model.")>>

\* the catch of JSON.parse without its return: start() goes on reading
InvalidJsonExit_noReturn == "reading"

\* stream/route.ts:259-260: controller.close(); return
InvalidJsonExit == "closed"

\* the end of the stream sending nothing
EndOfStreamEvents_none(sent) == <<>>

\* the end-of-stream guard inverted
EndOfStreamEvents_inverted(sent) ==
    IF sent THEN <<ErrorEvent("Model did not return FINAL_JSON block.")>> ELSE <<>>

\* stream/route.ts:269-274: what the end-of-stream guard sends
EndOfStreamEvents(sent) ==
    IF sent THEN <<>> ELSE <<ErrorEvent("Model did not return FINAL_JSON block.")>>

\* the page as it is first rendered
PageIdle ==
    /\ loading = FALSE
    /\ result = Null
    /\ approved = FALSE
    /\ systemStatus = "healthy"
    /\ selectedService = Null
    /\ gotFinal = FALSE
    /\ analysis = "idle"
    /\ analysesStarted = 0
    /\ approvedIn = 0
    /\ executePosts = <<>>
    /\ executionLogs = <<>>
    /\ recoveries = <<>>
    /\ recoveryInterval = 0
    /\ runs = <<>>

\* no request is being handled
RequestIdle ==
    /\ route = "none"
    /\ body = Undefined
    /\ rpc = "done"
    /\ calls = <<>>
    /\ enrichment = Undefined
    /\ externalContext = Undefined
    /\ modelResult = Undefined
    /\ response = Undefined

StreamInit ==
    /\ modelText \in ModelTexts
    /\ pos = 0
    /\ upstream = "open"
    /\ fullText = <<>>
    /\ finalSent = FALSE
    /\ jsonStarted = FALSE
    /\ lastNarrationSentIndex = 0
    /\ events = <<>>
    /\ pc = "reading"
    /\ modelJson = Undefined
    /\ streamReport = Undefined
    /\ syncResponse = Undefined
    /\ renormalized = Undefined
    /\ RequestIdle
    /\ PageIdle

\* one iteration of for await with a non-empty chunk of n symbols
Chunk(n) ==
    /\ pc = "reading"
    /\ pos + n <= Len(modelText)
    /\ LET text == Slice(modelText, pos, pos + n)
           full == fullText \o text
           narrating == ~finalSent /\ ~jsonStarted
           sent == IF narrating
                   THEN events \o NarrationEvents(full, text, jsonStarted,
                                                  lastNarrationSentIndex)
                   ELSE events
           parsed == JSONParse(JsonText(full))
       IN  /\ pos' = pos + n
           /\ jsonStarted' = (jsonStarted \/ (narrating /\ IndexOf(full, OpenTag) # -1))
           /\ IF ~finalSent /\ BlockComplete(full)
              THEN IF parsed.ok /\ ~ScoringThrows(parsed.value)
                   THEN /\ events' = Append(sent, FinalEvent(FinalData(parsed.value)))
                        /\ finalSent' = TRUE
                        /\ fullText' = <<>>
                        /\ pc' = "closed"
                   ELSE /\ events' = sent \o InvalidJsonEvents
                        /\ fullText' = full
                        /\ pc' = InvalidJsonExit
                        /\ UNCHANGED finalSent
              ELSE /\ events' = sent
                   /\ fullText' = full
                   /\ UNCHANGED <<finalSent, pc>>
    /\ UNCHANGED <<modelText, upstream, lastNarrationSentIndex, scoreVars, runs, reqVars, uiVars>>

\* stream/route.ts:110-111: an empty chunk is skipped
EmptyChunk ==
    /\ pc = "reading"
    /\ UNCHANGED vars

\* stream/route.ts:269-275: the upstream iterator is done
UpstreamEnd ==
    /\ pc = "reading"
    /\ events' = events \o EndOfStreamEvents(finalSent)
    /\ pc' = "closed"
    /\ upstream' = "ended"
    /\ UNCHANGED <<modelText, pos, fullText, finalSent, jsonStarted,
                   lastNarrationSentIndex, scoreVars, runs, reqVars, uiVars>>

\* what the upstream iterator throws: an abort or transport error with a
\* message, or a value without one
UpstreamErrors == {[message |-> "The operation was aborted"], Undefined}

\* stream/route.ts:277: e?.message ?? "Streaming failed"
FailureMessage(e) == IF "message" \in DOMAIN e THEN e.message ELSE "Streaming failed"

\* stream/route.ts:276-280: the upstream iterator throws
UpstreamFail ==
    /\ pc = "reading"
    /\ \E e \in UpstreamErrors : events' = Append(events, ErrorEvent(FailureMessage(e)))
    /\ pc' = "closed"
    /\ upstream' = "failed"
    /\ UNCHANGED <<modelText, pos, fullText, finalSent, jsonStarted,
                   lastNarrationSentIndex, scoreVars, runs, reqVars, uiVars>>

StreamNext ==
    \/ \E n \in 1..MaxFragLen : Chunk(n)
    \/ EmptyChunk
    \/ UpstreamEnd
    \/ UpstreamFail

Spec == StreamInit /\ [][StreamNext]_vars

\* the upstream iterator of the model eventually is done or throws
LiveSpec == Spec /\ WF_vars(UpstreamEnd \/ UpstreamFail)

-----------------------------------------------------------------------------
(* Properties of the streaming route *)

IsTerminal(e) == e.type \in {"final", "error"}

TerminalIndexes == {i \in 1..Len(events) : IsTerminal(events[i])}

TokenIndexes == {i \in 1..Len(events) : events[i].type = "token"}

RECURSIVE TokenConcat(_)
TokenConcat(es) ==
    IF es = <<>> THEN <<>>
    ELSE IF Head(es).type = "token" THEN Head(es).text \o TokenConcat(Tail(es))
    ELSE TokenConcat(Tail(es))

\* the model text delivered to the route so far
Delivered == Slice(modelText, 0, pos)

\* the text has an opening delimiter and a closing delimiter after it
HasBlock(text) ==
    \E i \in 0..Len(text) :
        /\ MatchesAt(text, OpenTag, i)
        /\ \E j \in (i + Len(OpenTag))..Len(text) : MatchesAt(text, CloseTag, j)

\* the text strictly between the first opening delimiter and the first closing
\* delimiter that follows it, trimmed
BlockText(text) ==
    LET start == IndexOf(text, OpenTag)
        ends == {j \in (start + Len(OpenTag))..Len(text) : MatchesAt(text, CloseTag, j)}
        end == CHOOSE j \in ends : \A h \in ends : j <= h
    IN  Trim(Slice(text, start + Len(OpenTag), end))

\* C1: the event sequence holds at most one terminal event (final or error), the
\* terminal event is the last event (every token precedes it, nothing follows
\* it), and once the channel is closed the events no longer change.
C1_OneTerminalLast ==
    /\ Cardinality(TerminalIndexes) <= 1
    /\ \A i \in TerminalIndexes : i = Len(events) /\ pc = "closed"

\* C1 witness: a token, then the terminal event, with model text still undelivered
C1_Witness ==
    /\ Len(events) >= 2
    /\ events[1].type = "token"
    /\ IsTerminal(events[Len(events)])
    /\ pos < Len(modelText)

\* C2 (as claimed): once the opening delimiter has been detected, the token texts
\* concatenated in order are exactly the text before the opening delimiter; and
\* the fragments "investigating...", "<FINAL_", "JSON>{..90..}</FINAL_JSON>" give
\* exactly one token "investigating..." followed by one final with severity 90.
C2_NarrationExactlyOnce ==
    /\ jsonStarted =>
          TokenConcat(events) = Slice(Delivered, 0, IndexOf(Delivered, OpenTag))
    /\ (/\ modelText = <<Narr>> \o OpenTag \o <<Payload90>> \o CloseTag
        /\ pc = "closed" /\ upstream = "open")
       => /\ Len(events) = 2
          /\ events[1] = TokenEvent(<<Narr>>)
          /\ events[2].type = "final"
          /\ events[2].data.severity_score = NumV(OfInt(90))

\* C6: when the upstream ends and the delivered text holds no complete block
\* (no opening delimiter at all, or an opening delimiter with no closing
\* delimiter after it), exactly one error event, the missing-block one, has
\* been emitted, and no final event.
C6_EndWithoutBlock ==
    (upstream = "ended" /\ ~HasBlock(Delivered)) =>
        /\ Cardinality(TerminalIndexes) = 1
        /\ events[Len(events)] = ErrorEvent("Model did not return FINAL_JSON block.")

\* C6 witness: the upstream ended after the opening delimiter was seen, and
\* narration had been sent
C6_Witness ==
    /\ upstream = "ended"
    /\ ~HasBlock(Delivered)
    /\ IndexOf(Delivered, OpenTag) # -1
    /\ TokenIndexes # {}

\* C7 (as claimed): as soon as the delivered text holds an opening delimiter
\* followed later by a closing delimiter, the route is in a terminal state whose
\* event is decided by the text between that opening delimiter and the closing
\* delimiter that follows it: final if it parses, the invalid-JSON error if not.
C7_BlockTerminates ==
    HasBlock(Delivered) =>
        /\ pc = "closed"
        /\ events # <<>>
        /\ IF JSONParse(BlockText(Delivered)).ok
           THEN events[Len(events)].type = "final"
           ELSE events[Len(events)] = ErrorEvent("Invalid JSON structure from model.")

-----------------------------------------------------------------------------
(* The synchronous route: safety helpers *)

toNumber(v, fallback) ==
    LET n == Number(v) IN IF NumberIsFinite(n) THEN n.x ELSE fallback

toInt01to100(v, fallback) ==
    clamp(MathRound(toNumber(v, fallback)), OfInt(0), OfInt(100))

toProb01(v, fallback) == clamp(toNumber(v, fallback), OfInt(0), OfInt(1))

toStringSafe(v, fallback) == IF v.k = "string" THEN v.s ELSE fallback

\* s.trim() of a name or label: the blank string is the one string of the
\* model with white space around it
StringTrim(s) == IF s = " " THEN "" ELSE s

\* typeof x === "string" ? x : String(x ?? ""), for string, null and undefined x
StringOf(x) ==
    CASE x.k = "string" -> x.s
      [] x.k \in {"undefined", "null"} -> ""

Take(a, limit) == SubSeq(a, 1, MathMin(limit, Len(a)))

Filter(a, P(_)) ==
    LET kept[n \in 0..Len(a)] ==
            IF n = 0 THEN <<>>
            ELSE IF P(a[n]) THEN Append(kept[n - 1], a[n])
            ELSE kept[n - 1]
    IN  kept[Len(a)]

Map(a, F(_)) ==
    LET mapped[n \in 0..Len(a)] ==
            IF n = 0 THEN <<>> ELSE Append(mapped[n - 1], F(a[n]))
    IN  mapped[Len(a)]

toStringArray(v, limit) ==
    IF IsArray(v)
    THEN Take(Filter(Map(v.a, LAMBDA x : StringTrim(StringOf(x))),
                     LAMBDA t : t # ""),
              limit)
    ELSE <<>>

\* a status outside the enum read as healthy
safeServiceStatus_healthy(v) ==
    IF v \in {StrV("healthy"), StrV("degraded"), StrV("down")} THEN v.s
    ELSE "healthy"

safeServiceStatus(v) ==
    IF v \in {StrV("healthy"), StrV("degraded"), StrV("down")} THEN v.s
    ELSE "degraded"

-----------------------------------------------------------------------------
(* incident_type is text the route searches, so it is a sequence of letters *)

Upper ==
    <<"A", "B", "C", "D", "E", "F", "G", "H", "I", "J", "K", "L", "M",
      "N", "O", "P", "Q", "R", "S", "T", "U", "V", "W", "X", "Y", "Z">>

Lower ==
    <<"a", "b", "c", "d", "e", "f", "g", "h", "i", "j", "k", "l", "m",
      "n", "o", "p", "q", "r", "s", "t", "u", "v", "w", "x", "y", "z">>

LowerOf(c) ==
    IF \E u \in 1..Len(Upper) : Upper[u] = c
    THEN Lower[CHOOSE u \in 1..Len(Upper) : Upper[u] = c]
    ELSE c

ToLowerCase(text) == Map(text, LowerOf)

Includes(text, part) == IndexOf(text, part) # -1

UnknownIncident ==
    <<"U", "n", "k", "n", "o", "w", "n", " ", "I", "n", "c", "i", "d", "e", "n", "t">>

-----------------------------------------------------------------------------
(* The synchronous route: fallback builders *)

Service(name, status, signals, components) ==
    [name |-> name, status |-> status, signals |-> signals,
     suspected_components |-> components]

\* buildFallbackServices without toLowerCase
buildFallbackServices_caseSensitive(incidentType) ==
    LET escalate == \/ Includes(incidentType, <<"o", "u", "t", "a", "g", "e">>)
                    \/ Includes(incidentType, <<"d", "o", "w", "n">>)
                    \/ Includes(incidentType, <<"c", "r", "i", "t", "i", "c", "a", "l">>)
    IN  << Service("api-gateway", IF escalate THEN "down" ELSE "degraded",
                   <<"Fallback service map">>,
                   <<"request-routing", "auth", "rate-limiter">>),
           Service("primary-db", IF escalate THEN "down" ELSE "degraded",
                   <<"Fallback service map">>,
                   <<"connections", "replication", "locks">>),
           Service("cache", IF escalate THEN "degraded" ELSE "healthy",
                   <<"Fallback service map">>,
                   <<"evictions", "latency", "memory">>) >>

buildFallbackServices(incidentType) ==
    LET it == ToLowerCase(incidentType)
        escalate == \/ Includes(it, <<"o", "u", "t", "a", "g", "e">>)
                    \/ Includes(it, <<"d", "o", "w", "n">>)
                    \/ Includes(it, <<"c", "r", "i", "t", "i", "c", "a", "l">>)
    IN  << Service("api-gateway", IF escalate THEN "down" ELSE "degraded",
                   <<"Fallback service map">>,
                   <<"request-routing", "auth", "rate-limiter">>),
           Service("primary-db", IF escalate THEN "down" ELSE "degraded",
                   <<"Fallback service map">>,
                   <<"connections", "replication", "locks">>),
           Service("cache", IF escalate THEN "degraded" ELSE "healthy",
                   <<"Fallback service map">>,
                   <<"evictions", "latency", "memory">>) >>

Node(id, label) == [id |-> id, label |-> label]
Edge(from, to, label) == [from |-> from, to |-> to, label |-> label]

buildPropagationFromServices(services) ==
    [nodes |-> Map(services, LAMBDA s : Node(s.name, s.name)),
     edges |-> IF Len(services) >= 3
               THEN << Edge(services[1].name, services[2].name, "depends_on"),
                       Edge(services[1].name, services[3].name, "uses_cache") >>
               ELSE <<>>]

-----------------------------------------------------------------------------
(* The synchronous route: hybrid deterministic scoring *)

\* the two-down threshold off by one
calculateSeverityFromServices_offByOne(services) ==
    LET downCount == CountWhere(services, LAMBDA s : s.status = "down")
        degradedCount == CountWhere(services, LAMBDA s : s.status = "degraded")
        base == IF downCount > 2 THEN 70 ELSE IF downCount = 1 THEN 45 ELSE 0
    IN  clamp(OfInt(base + degradedCount * 10), OfInt(0), OfInt(100))

\* the weighting of the streaming route
calculateSeverityFromServices_additive(services) ==
    LET downCount == CountWhere(services, LAMBDA s : s.status = "down")
        degradedCount == CountWhere(services, LAMBDA s : s.status = "degraded")
    IN  clamp(OfInt(downCount * 35 + degradedCount * 15), OfInt(0), OfInt(100))

calculateSeverityFromServices(services) ==
    LET downCount == CountWhere(services, LAMBDA s : s.status = "down")
        degradedCount == CountWhere(services, LAMBDA s : s.status = "degraded")
        base == IF downCount >= 2 THEN 70 ELSE IF downCount = 1 THEN 45 ELSE 0
    IN  clamp(OfInt(base + degradedCount * 10), OfInt(0), OfInt(100))

calculateBlastRadius(services) ==
    LET total == Len(services)
        down == CountWhere(services, LAMBDA s : s.status = "down")
        degraded == CountWhere(services, LAMBDA s : s.status = "degraded")
    IN  IF total = 0 THEN 0
        ELSE clamp(OfInt(RoundedPercent(down, degraded, total)),
                   OfInt(0), OfInt(100))

\* the impact without its clamp
calculateImpactFromPropagation_unclamped(propagation) ==
    OfInt(Len(propagation.nodes) * 5 + Len(propagation.edges) * 8)

calculateImpactFromPropagation(propagation) ==
    clamp(OfInt(Len(propagation.nodes) * 5 + Len(propagation.edges) * 8),
          OfInt(0), OfInt(100))

-----------------------------------------------------------------------------
(* The synchronous route: normalization of the parsed model JSON *)

\* filter with a seen-set: the first element with each key is kept
DedupeBy(a, Key(_)) ==
    LET kept[n \in 0..Len(a)] ==
            IF n = 0 THEN <<>>
            ELSE IF \E j \in 1..(n - 1) : Key(a[j]) = Key(a[n]) THEN kept[n - 1]
            ELSE Append(kept[n - 1], a[n])
    IN  kept[Len(a)]

\* a.sort((a, b) => b.probability - a.probability): stable, descending
InsertByProbability(sorted, c) ==
    LET before == {i \in 1..Len(sorted) : sorted[i].probability < c.probability}
        at == IF before = {} THEN Len(sorted) + 1
              ELSE CHOOSE i \in before : \A j \in before : i <= j
    IN  SubSeq(sorted, 1, at - 1) \o <<c>> \o SubSeq(sorted, at, Len(sorted))

SortByProbability(a) ==
    LET sorted[n \in 0..Len(a)] ==
            IF n = 0 THEN <<>> ELSE InsertByProbability(sorted[n - 1], a[n])
    IN  sorted[Len(a)]

\* the causes capped at 5 without the sort
NormalizeCauses_unsorted(parsed) ==
    LET raw == IF IsArray(Field(parsed, "probable_causes"))
               THEN Field(parsed, "probable_causes").a ELSE <<>>
        mapped == Map(raw, LAMBDA c :
                    [name |-> toStringSafe(Field(c, "name"), "Unknown Cause"),
                     probability |-> toProb01(Field(c, "probability"), 0),
                     reasoning |-> toStringSafe(Field(c, "reasoning"), ""),
                     recommended_action |->
                         toStringSafe(Field(c, "recommended_action"), "")])
    IN  Take(Filter(mapped, LAMBDA c : StringTrim(c.name) # ""), 5)

\* route.ts:309-321
NormalizeCauses(parsed) ==
    LET raw == IF IsArray(Field(parsed, "probable_causes"))
               THEN Field(parsed, "probable_causes").a ELSE <<>>
        mapped == Map(raw, LAMBDA c :
                    [name |-> toStringSafe(Field(c, "name"), "Unknown Cause"),
                     probability |-> toProb01(Field(c, "probability"), 0),
                     reasoning |-> toStringSafe(Field(c, "reasoning"), ""),
                     recommended_action |->
                         toStringSafe(Field(c, "recommended_action"), "")])
    IN  Take(SortByProbability(Filter(mapped, LAMBDA c : StringTrim(c.name) # "")), 5)

\* route.ts:328-338
MapServices(parsed) ==
    LET raw == IF IsArray(Field(parsed, "services"))
               THEN Field(parsed, "services").a ELSE <<>>
        mapped == Map(raw, LAMBDA s :
                    Service(IF StringTrim(toStringSafe(Field(s, "name"), "")) = ""
                            THEN "unknown-service"
                            ELSE StringTrim(toStringSafe(Field(s, "name"), "")),
                            safeServiceStatus(Field(s, "status")),
                            toStringArray(Field(s, "signals"), 12),
                            toStringArray(Field(s, "suspected_components"), 12)))
    IN  Filter(mapped, LAMBDA s : s.name # "")

\* the dedupe keeping the last service of each name
NormalizeServices_keepLast(parsed, incident_type) ==
    LET mapped == MapServices(parsed)
        services == IF Len(mapped) < 3 THEN buildFallbackServices(incident_type)
                    ELSE mapped
        reversed == [i \in 1..Len(services) |-> services[Len(services) + 1 - i]]
        kept == DedupeBy(reversed, LAMBDA s : s.name)
    IN  [i \in 1..Len(kept) |-> kept[Len(kept) + 1 - i]]

\* route.ts:340-349: fallback when fewer than 3 remain, then dedupe by name
NormalizeServices(parsed, incident_type) ==
    LET mapped == MapServices(parsed)
        services == IF Len(mapped) < 3 THEN buildFallbackServices(incident_type)
                    ELSE mapped
    IN  DedupeBy(services, LAMBDA s : s.name)

\* route.ts:351-390
NormalizePropagation(parsed, services) ==
    LET prop == Field(parsed, "propagation")
        rawNodes == Field(prop, "nodes")
        rawEdges == Field(prop, "edges")
        nodes == Take(DedupeBy(Filter(Map(rawNodes.a, LAMBDA n :
                                Node(StringTrim(toStringSafe(Field(n, "id"), "")),
                                     StringTrim(toStringSafe(Field(n, "label"), "")))),
                            LAMBDA n : n.id # "" /\ n.label # ""),
                        LAMBDA n : n.id), 30)
        edges == Take(Filter(Map(rawEdges.a, LAMBDA e :
                                Edge(StringTrim(toStringSafe(Field(e, "from"), "")),
                                     StringTrim(toStringSafe(Field(e, "to"), "")),
                                     IF StringTrim(toStringSafe(Field(e, "label"), "")) = ""
                                     THEN "depends_on"
                                     ELSE StringTrim(toStringSafe(Field(e, "label"), "")))),
                            LAMBDA e : e.from # "" /\ e.to # ""), 60)
    IN  IF IsArray(rawNodes) /\ IsArray(rawEdges) /\ Len(nodes) >= 2
        THEN [nodes |-> nodes, edges |-> edges]
        ELSE buildPropagationFromServices(services)

StrArr(a) == ArrV(Map(a, LAMBDA t : StrV(t)))

\* the response body as JSON, as NextResponse.json serialises safeResponse
ServiceJSON(s) ==
    [k |-> "object", name |-> StrV(s.name), status |-> StrV(s.status),
     signals |-> StrArr(s.signals),
     suspected_components |-> StrArr(s.suspected_components)]

CauseJSON(c) ==
    [k |-> "object", name |-> StrV(c.name), probability |-> NumV(c.probability),
     reasoning |-> StrV(c.reasoning),
     recommended_action |-> StrV(c.recommended_action)]

PropagationJSON(p) ==
    [k |-> "object",
     nodes |-> ArrV(Map(p.nodes, LAMBDA n :
                   [k |-> "object", id |-> StrV(n.id), label |-> StrV(n.label)])),
     edges |-> ArrV(Map(p.edges, LAMBDA e :
                   [k |-> "object", from |-> StrV(e.from), to |-> StrV(e.to),
                    label |-> StrV(e.label)]))]

\* route.ts:295-425: safeResponse built from the parsed model JSON
safeResponse(parsed) ==
    LET incident_type == toStringSafe(Field(parsed, "incident_type"), UnknownIncident)
        aiSeverity == toInt01to100(Field(parsed, "severity_score"), 0)
        aiImpact == toInt01to100(Field(parsed, "business_impact_score"), 0)
        services == NormalizeServices(parsed, incident_type)
        propagation == NormalizePropagation(parsed, services)
        deterministicSeverity == calculateSeverityFromServices(services)
        deterministicImpact == calculateImpactFromPropagation(propagation)
        blastRadiusScore == calculateBlastRadius(services)
        finalSeverity == clamp(MathRound(MathMax(aiSeverity, deterministicSeverity)),
                               OfInt(0), OfInt(100))
        finalImpact == clamp(OfInt(WeightedBlend(Whole(aiImpact),
                                                 Whole(deterministicImpact),
                                                 Whole(blastRadiusScore))),
                             OfInt(0), OfInt(100))
    IN  [k |-> "object",
         incident_type |-> StrV(incident_type),
         executive_summary |-> StrV(toStringSafe(Field(parsed, "executive_summary"), "")),
         severity_score |-> NumV(finalSeverity),
         business_impact_score |-> NumV(finalImpact),
         estimated_recovery_time_minutes |->
             NumV(MathMax(0, toNumber(Field(parsed, "estimated_recovery_time_minutes"), 0))),
         probable_causes |-> ArrV(Map(NormalizeCauses(parsed), CauseJSON)),
         recommended_runbook_steps |->
             StrArr(toStringArray(Field(parsed, "recommended_runbook_steps"), 10)),
         confidence |-> NumV(toProb01(Field(parsed, "confidence"), 0)),
         services |-> ArrV(Map(services, ServiceJSON)),
         propagation |-> PropagationJSON(propagation)]

\* route.ts:295-390: the coercion, fallback and dedupe steps alone, the two
\* scores coerced (298-299) and not yet replaced by the hybrid scores
Normalizer(parsed) ==
    [safeResponse(parsed) EXCEPT
        !.severity_score = NumV(toInt01to100(Field(parsed, "severity_score"), 0)),
        !.business_impact_score =
            NumV(toInt01to100(Field(parsed, "business_impact_score"), 0))]

-----------------------------------------------------------------------------
(* Model answers the two routes are run on *)

Obj(fields) == [f \in DOMAIN MissingFields |->
                   IF f \in DOMAIN fields THEN fields[f] ELSE MissingFields[f]]

\* -5, 42.5, 150 and so on, in halves
ScoreInputs ==
    {Undefined, Null, StrV("high"), StrV("90"), Infinity,
     NumV(-10), NumV(85), NumV(OfInt(90)), NumV(OfInt(150))}

ImpactInputs == {Undefined, NumV(OfInt(4)), NumV(85), NumV(OfInt(250))}

ProbInputs == {Undefined, NumV(-1), NumV(1), NumV(3)}

MinutesInputs == {Undefined, StrV("soon"), NumV(-6), NumV(25)}

ServiceObj(name, status, signals) ==
    [k |-> "object", name |-> name, status |-> status, signals |-> signals,
     suspected_components |-> Undefined]

ServiceInputs ==
    {ServiceObj(StrV("api-gateway"), StrV("down"), Undefined),
     ServiceObj(StrV("api-gateway"), StrV("healthy"), Undefined),
     ServiceObj(StrV("db"), StrV("down"), Undefined),
     ServiceObj(StrV("db"), StrV("degraded"), Undefined),
     ServiceObj(StrV("cache"), StrV("degraded"), Undefined),
     ServiceObj(StrV(" "), StrV("DOWN"), ArrV(<<StrV("timeout"), StrV(" "), Null>>)),
     Null}

SeqsUpTo(S, n) == UNION {[1..m -> S] : m \in 0..n}

ServicesInputs == {Undefined} \cup {ArrV(a) : a \in SeqsUpTo(ServiceInputs, MaxServices)}

\* four services of which one is degraded
OneDegradedOfFour ==
    ArrV(<<ServiceObj(StrV("api-gateway"), StrV("degraded"), Undefined),
           ServiceObj(StrV("db"), StrV("healthy"), Undefined),
           ServiceObj(StrV("cache"), StrV("healthy"), Undefined),
           ServiceObj(StrV("queue"), StrV("healthy"), Undefined)>>)

NodeObj(id, label) == [k |-> "object", id |-> id, label |-> label]
EdgeObj(from, to, label) == [k |-> "object", from |-> from, to |-> to, label |-> label]

NodeInputs ==
    {NodeObj(StrV("api-gateway"), StrV("API")), NodeObj(StrV("db"), StrV("DB")),
     NodeObj(StrV("cache"), StrV("Cache")), NodeObj(StrV(" "), StrV("x"))}

EdgeInputs ==
    {EdgeObj(StrV("api-gateway"), StrV("db"), Undefined),
     EdgeObj(StrV("api-gateway"), Undefined, StrV("calls"))}

PropagationInputs ==
    {Undefined, StrV("none")}
    \cup {[k |-> "object", nodes |-> n, edges |-> e] :
            n \in {Undefined} \cup {ArrV(a) : a \in SeqsUpTo(NodeInputs, MaxNodes)},
            e \in {Undefined} \cup {ArrV(a) : a \in SeqsUpTo(EdgeInputs, MaxEdges)}}

CauseObj(name, probability) ==
    [k |-> "object", name |-> name, probability |-> probability,
     reasoning |-> StrV("because"), recommended_action |-> Undefined]

CauseInputs ==
    {CauseObj(StrV("pool exhausted"), NumV(1)), CauseObj(StrV("failover"), NumV(3)),
     CauseObj(StrV("dns"), NumV(-1)), CauseObj(StrV(" "), NumV(OfInt(1))),
     CauseObj(Undefined, StrV("likely"))}

CausesInputs == {Undefined} \cup {ArrV(a) : a \in SeqsUpTo(CauseInputs, MaxCauses)}

ScalarAnswers ==
    {Obj([severity_score |-> s, business_impact_score |-> i, confidence |-> c,
          estimated_recovery_time_minutes |-> m]) :
        s \in ScoreInputs, i \in ImpactInputs, c \in ProbInputs, m \in MinutesInputs}

ServiceAnswers ==
    {Obj([services |-> sv, severity_score |-> c[1], incident_type |-> c[2]]) :
        sv \in ServicesInputs,
        c \in {<<Undefined, Undefined>>,
               <<NumV(OfInt(90)), StrV(<<"D", "B", " ", "O", "u", "t", "a", "g", "e">>)>>,
               <<Undefined, StrV(<<"S", "l", "o", "w">>)>>}}

PropagationAnswers ==
    {Obj([propagation |-> p, services |-> c[1], business_impact_score |-> c[2]]) :
        p \in PropagationInputs,
        c \in {<<Undefined, Undefined>>, <<OneDegradedOfFour, NumV(OfInt(4))>>}}

CauseAnswers ==
    {Obj([probable_causes |-> c,
          recommended_runbook_steps |-> ArrV(<<StrV("restart"), Null, StrV(" ")>>)]) :
        c \in CausesInputs}

IncidentTypeInputs ==
    {Undefined, NumV(OfInt(7)), StrV(<<>>),
     StrV(<<"D", "B", " ", "O", "u", "t", "a", "g", "e">>),
     StrV(<<"S", "H", "U", "T", "D", "O", "W", "N">>),
     StrV(<<"c", "r", "i", "t", "i", "c", "a", "l">>),
     StrV(<<"C", "r", "i", "t">>),
     StrV(<<"S", "l", "o", "w">>)}

\* answers with fewer than 3 services, or services that are no array
FewServicesInputs ==
    {Undefined, Null, StrV("none")}
    \cup {ArrV(a) : a \in SeqsUpTo({ServiceObj(StrV("db"), StrV("down"), Undefined),
                                     ServiceObj(StrV("cache"), StrV("healthy"), Undefined)},
                                    2)}

FallbackAnswers ==
    {Obj([incident_type |-> t, services |-> sv]) :
        t \in IncidentTypeInputs, sv \in FewServicesInputs}

\* more causes than the route keeps
LongCauseInputs ==
    {CauseObj(StrV("pool exhausted"), NumV(1)), CauseObj(StrV("failover"), NumV(3)),
     CauseObj(StrV("dns"), NumV(-1))}

LongCauseAnswers ==
    {Obj([probable_causes |-> ArrV(a)]) :
        a \in UNION {[1..n -> LongCauseInputs] : n \in 6..MaxCauseLen}}

\* twenty services, three of them down and the others degraded
ServiceNames ==
    << "svc-01", "svc-02", "svc-03", "svc-04", "svc-05", "svc-06", "svc-07",
       "svc-08", "svc-09", "svc-10", "svc-11", "svc-12", "svc-13", "svc-14",
       "svc-15", "svc-16", "svc-17", "svc-18", "svc-19", "svc-20" >>

TwentyServices ==
    ArrV([i \in 1..Len(ServiceNames) |->
            ServiceObj(StrV(ServiceNames[i]),
                       StrV(IF i <= 3 THEN "down" ELSE "degraded"), Undefined)])

\* three nodes and thirteen edges between the first two of them
DensePropagation ==
    [k |-> "object",
     nodes |-> ArrV(<<NodeObj(StrV("api-gateway"), StrV("API")),
                      NodeObj(StrV("db"), StrV("DB")),
                      NodeObj(StrV("cache"), StrV("Cache"))>>),
     edges |-> ArrV([i \in 1..13 |->
                        EdgeObj(StrV("api-gateway"), StrV("db"), Undefined)])]

\* answers with many services or a dense propagation
LargeAnswers ==
    {Obj([services |-> sv, propagation |-> p]) :
        sv \in {Undefined, TwentyServices}, p \in {Undefined, DensePropagation}}

\* statuses inside and outside the enum: missing, a number, wrong case, other text
StatusInputs ==
    {Undefined, NumV(OfInt(1)), StrV("Healthy"), StrV("ok"), StrV("healthy"),
     StrV("down")}

\* three services of distinct names with such statuses
OddStatusAnswers ==
    {Obj([services |->
            ArrV(<<ServiceObj(StrV("api-gateway"), st[1], Undefined),
                   ServiceObj(StrV("db"), st[2], Undefined),
                   ServiceObj(StrV("cache"), st[3], Undefined)>>)]) :
        st \in [1..3 -> StatusInputs]}

\* answers that are JSON but no object
NonObjectAnswers ==
    {Null, NumV(OfInt(5)), StrV("ok"), ArrV(<<>>), ArrV(<<NumV(OfInt(1)), Null>>)}

ModelAnswers ==
    ScalarAnswers \cup ServiceAnswers \cup PropagationAnswers \cup CauseAnswers
    \cup FallbackAnswers \cup NonObjectAnswers \cup LongCauseAnswers
    \cup LargeAnswers \cup OddStatusAnswers

-----------------------------------------------------------------------------
(* The two routes on one parsed model answer *)

ScoreInit ==
    /\ modelJson \in ModelAnswers
    /\ streamReport = Undefined
    /\ syncResponse = Undefined
    /\ renormalized = Undefined
    /\ RequestIdle
    /\ PageIdle
    /\ modelText = <<>>
    /\ pos = 0
    /\ upstream = "open"
    /\ fullText = <<>>
    /\ finalSent = FALSE
    /\ jsonStarted = FALSE
    /\ lastNarrationSentIndex = 0
    /\ events = <<>>
    /\ pc = "reading"

\* stream/route.ts:152-258: the data of the final event, or the error event
\* when the scoring throws
StreamFinal ==
    /\ streamReport = Undefined
    /\ streamReport' = IF ScoringThrows(modelJson) THEN InvalidJsonEvents[1]
                        ELSE FinalData(modelJson)
    /\ UNCHANGED <<modelJson, syncResponse, renormalized, streamVars, runs, reqVars, uiVars>>

\* route.ts:295-425: the report of the response
SyncRespond ==
    /\ syncResponse = Undefined
    /\ syncResponse' = safeResponse(modelJson)
    /\ UNCHANGED <<modelJson, streamReport, renormalized, streamVars, runs, reqVars, uiVars>>

\* route.ts:295-390 applied to the report the route returned
SyncRenormalize ==
    /\ syncResponse # Undefined
    /\ renormalized = Undefined
    /\ renormalized' = Normalizer(syncResponse)
    /\ UNCHANGED <<modelJson, streamReport, syncResponse, streamVars, runs, reqVars, uiVars>>

ScoreNext == StreamFinal \/ SyncRespond \/ SyncRenormalize

ScoreSpec == ScoreInit /\ [][ScoreNext]_vars

-----------------------------------------------------------------------------
(* One request to an analysis endpoint: validation, enrichment, model call *)

\* req.json() rejected: the body is no JSON
Unparsable == [k |-> "unparsable"]

False == [k |-> "boolean", b |-> FALSE]

LogLine == "ERROR db timeout"

LogsInputs ==
    {Undefined, Null, False, NumV(0), NumV(OfInt(5)), ArrV(<<>>),
     StrV(<<>>), StrV(<<Blank>>), StrV(<<Blank, Blank>>),
     StrV(<<LogLine>>), StrV(<<Blank, LogLine>>)}

Bodies ==
    {Unparsable, Null, [k |-> "object"]}
    \cup {[k |-> "object", logs |-> v] : v \in LogsInputs}

\* !v
Falsy(v) ==
    \/ v.k \in {"undefined", "null", "nan"}
    \/ v.k = "boolean" /\ ~v.b
    \/ v.k = "number" /\ v.x = 0
    \/ v.k = "string" /\ v.s = <<>>

\* v ?? d
NullishOr(v, d) == IF v.k \in {"undefined", "null"} THEN d ELSE v

\* the validation without the blank test
LogsRejected_noTrim(logs) == Falsy(logs) \/ logs.k # "string"

\* route.ts:182: !logs || typeof logs !== "string" || !logs.trim()
LogsRejected(logs) ==
    Falsy(logs) \/ logs.k # "string" \/ Trim(logs.s) = <<>>

\* NextResponse.json(data, { status })
JsonResponse(status, data) == [status |-> status, json |-> data]

\* new Response(text, { status })
TextResponse(status, text) == [status |-> status, text |-> text]

ErrorBody(message) == [k |-> "object", error |-> StrV(message)]

\* the invalid-JSON answer returned as a report holding only the enrichment
InvalidJsonResponse_partial ==
    JsonResponse(200, [k |-> "object",
                       external_intelligence |-> <<"No external context available.">>])

\* route.ts:292
InvalidJsonResponse == JsonResponse(500, ErrorBody("AI returned invalid JSON"))

\* route.ts:433
AnalyzeFailedResponse == JsonResponse(500, ErrorBody("Failed to analyze logs"))

\* route.ts:183
LogsRequiredResponse == JsonResponse(400, ErrorBody("Logs are required"))

(* the enrichment call, route.ts:190-216 *)

NoContext == <<"No external context available.">>
SearchUnavailable == <<"External search unavailable.">>

SummaryObj(title, snippet, url) ==
    [k |-> "object", title |-> title, snippet |-> snippet, url |-> url]

SummaryInputs ==
    {SummaryObj(StrV("Postgres failover"), StrV("replica lag"), StrV("https://kb/1")),
     SummaryObj(Undefined, StrV("pool exhausted"), Undefined),
     Null}

SearchData ==
    {Null, StrV("Bad Gateway"), [k |-> "object"],
     [k |-> "object", summaries |-> StrV("none")]}
    \cup {[k |-> "object", summaries |-> ArrV(a)] :
             a \in SeqsUpTo(SummaryInputs, MaxSummaries)}

EnrichmentOutcomes ==
    {[k |-> "fetch-rejects"], [k |-> "body-unreadable"]}
    \cup {[k |-> "json", data |-> d] : d \in SearchData}

\* ${v} in a template literal
TemplateText(v) ==
    CASE v.k = "string" -> v.s
      [] v.k = "undefined" -> "undefined"
      [] v.k = "null" -> "null"

\* route.ts:207-212: one block of text per summary, numbered from 1
SourcesText(summaries) ==
    LET text[n \in 0..Len(summaries)] ==
            IF n = 0 THEN <<>>
            ELSE Append(text[n - 1],
                        [source |-> n,
                         title |-> TemplateText(Field(summaries[n], "title")),
                         snippet |-> TemplateText(Field(summaries[n], "snippet")),
                         url |-> TemplateText(Field(summaries[n], "url"))])
    IN  text[Len(summaries)]

\* the catch of the enrichment call keeping the error's message
ExternalContext_errorText(outcome) ==
    IF outcome.k # "json" THEN <<"fetch failed">>
    ELSE LET summaries == Field(outcome.data, "summaries")
         IN  IF IsArray(summaries) /\ Len(summaries.a) > 0
             THEN SourcesText(summaries.a)
             ELSE NoContext

\* route.ts:190-216: externalContext after the enrichment call
ExternalContext(outcome) ==
    IF outcome.k # "json" THEN SearchUnavailable
    ELSE LET summaries == Field(outcome.data, "summaries")
         IN  IF IsArray(summaries) /\ Len(summaries.a) > 0
             THEN IF \E i \in 1..Len(summaries.a) :
                        summaries.a[i].k \in {"null", "undefined"}
                  THEN SearchUnavailable
                  ELSE SourcesText(summaries.a)
             ELSE NoContext

(* the model's reply to the synchronous route, route.ts:74-84 and 286-293 *)

\* the two Markdown code fences, with and without the json tag
FenceJson == "[fence]json"
Fence == "[fence]"

ReplySymbols == {FenceJson, Fence, Narr, Blank, Payload90, PayloadNull}

ReplyTexts == SeqsUpTo(ReplySymbols, MaxReplySyms)

ModelResults == {[k |-> "rejects"]} \cup {[k |-> "text", text |-> t] : t \in ReplyTexts}

\* the symbols that are a JSON object text, from its { to its }
HasBraces(sym) == sym = Payload90

safeJSONParse(text) ==
    LET cleaned == Trim(Filter(text, LAMBDA sym : sym \notin {FenceJson, Fence}))
        braces == {i \in 1..Len(cleaned) : HasBraces(cleaned[i])}
        first == CHOOSE i \in braces : \A j \in braces : i <= j
        last == CHOOSE i \in braces : \A j \in braces : i >= j
        candidate == IF braces # {} THEN SubSeq(cleaned, first, last) ELSE cleaned
    IN  JSONParse(candidate)

\* route.ts:428-431: { ...safeResponse, external_intelligence: externalContext }
SuccessBody(report, context) ==
    [f \in DOMAIN report \cup {"external_intelligence"} |->
        IF f = "external_intelligence" THEN context ELSE report[f]]

(* the execute endpoint, app/api/execute/route.ts *)

\* the allow-list with one more service
AllowedServices_withDb == <<"api-gateway", "primary-db", "cache", "db">>

\* execute/route.ts:12
AllowedServices == <<"api-gateway", "primary-db", "cache">>

\* array.includes(v): the same value, with no conversion
ArrayIncludes(array, v) ==
    v.k = "string" /\ \E i \in 1..Len(array) : array[i] = v.s

ServiceNameInputs ==
    {Undefined, Null, NumV(OfInt(1)), ArrV(<<StrV("cache")>>),
     StrV("api-gateway"), StrV("primary-db"), StrV("cache"),
     StrV("db"), StrV("API-GATEWAY"), StrV("cache "), StrV("")}

ExecuteBodies ==
    {Unparsable, Null, [k |-> "object"]}
    \cup {[k |-> "object", service |-> v] : v \in ServiceNameInputs}

\* the webhook call: fetch rejects, or resolves with an HTTP status
WebhookOutcomes ==
    {[k |-> "rejects", message |-> "fetch failed"], [k |-> "rejects"],
     [k |-> "status", status |-> 200], [k |-> "status", status |-> 404],
     [k |-> "status", status |-> 503]}

\* execute/route.ts:36: err?.message ?? "Execution failed"
ExecutionFailedResponse(err) ==
    JsonResponse(500, ErrorBody(IF "message" \in DOMAIN err THEN err.message
                                ELSE "Execution failed"))

\* execute/route.ts:13
InvalidServiceResponse == JsonResponse(400, ErrorBody("Invalid service"))

\* execute/route.ts:29-34
ExecutedResponse(service, webhookStatus) ==
    JsonResponse(200, [k |-> "object", status |-> StrV("executed"),
                       service |-> service, webhook_status |-> webhookStatus,
                       message |-> <<"Real infrastructure action triggered for ",
                                     service.s>>])

RequestInit ==
    /\ \/ route \in {"sync", "stream"} /\ body \in Bodies
       \/ route = "execute" /\ body \in ExecuteBodies
    /\ rpc = "received"
    /\ calls = <<>>
    /\ enrichment = Undefined
    /\ externalContext = Undefined
    /\ modelResult = Undefined
    /\ response = Undefined
    /\ modelText = <<>>
    /\ pos = 0
    /\ upstream = "open"
    /\ fullText = <<>>
    /\ finalSent = FALSE
    /\ jsonStarted = FALSE
    /\ lastNarrationSentIndex = 0
    /\ events = <<>>
    /\ pc = "reading"
    /\ modelJson = Undefined
    /\ streamReport = Undefined
    /\ syncResponse = Undefined
    /\ renormalized = Undefined
    /\ PageIdle

\* route.ts:178-184 (and the catch, 432-434, when the body is no JSON)
SyncValidate ==
    /\ route = "sync"
    /\ rpc = "received"
    /\ IF body = Unparsable
       THEN response' = AnalyzeFailedResponse /\ rpc' = "done"
       ELSE IF LogsRejected(Field(body, "logs"))
            THEN response' = LogsRequiredResponse /\ rpc' = "done"
            ELSE response' = response /\ rpc' = "enrich"
    /\ UNCHANGED <<route, body, calls, enrichment, externalContext, modelResult,
                   streamVars, scoreVars, runs, uiVars>>

\* route.ts:186-219: the call to /api/search-context returns or fails
SyncEnrich ==
    /\ route = "sync"
    /\ rpc = "enrich"
    /\ \E outcome \in EnrichmentOutcomes :
          /\ enrichment' = outcome
          /\ externalContext' = ExternalContext(outcome)
    /\ calls' = Append(calls, "search-context")
    /\ rpc' = "model"
    /\ UNCHANGED <<route, body, modelResult, response, streamVars, scoreVars, runs, uiVars>>

\* route.ts:221-434: the call to the model returns or fails, and the response
SyncModel ==
    /\ route = "sync"
    /\ rpc = "model"
    /\ \E reply \in ModelResults :
          /\ modelResult' = reply
          /\ response' =
                IF reply.k = "rejects" THEN AnalyzeFailedResponse
                ELSE IF ~safeJSONParse(reply.text).ok THEN InvalidJsonResponse
                ELSE JsonResponse(200,
                        SuccessBody(safeResponse(safeJSONParse(reply.text).value),
                                    externalContext))
    /\ calls' = Append(calls, "model")
    /\ rpc' = "done"
    /\ UNCHANGED <<route, body, enrichment, externalContext, streamVars, scoreVars, runs, uiVars>>

\* stream/route.ts:9-15 (and the catch, 291-293): logs = body?.logs ?? "",
\* then logs.trim(), which throws a TypeError when logs is no string
StreamValidate ==
    /\ route = "stream"
    /\ rpc = "received"
    /\ LET logs == NullishOr(Field(body, "logs"), StrV(<<>>))
       IN  IF body = Unparsable
           THEN response' = TextResponse(400, "Unexpected end of JSON input")
                /\ rpc' = "done"
           ELSE IF logs.k # "string"
           THEN response' = TextResponse(400, "logs.trim is not a function")
                /\ rpc' = "done"
           ELSE IF Trim(logs.s) = <<>>
           THEN response' = TextResponse(400, "Missing logs") /\ rpc' = "done"
           ELSE response' = response /\ rpc' = "model"
    /\ UNCHANGED <<route, body, calls, enrichment, externalContext, modelResult,
                   streamVars, scoreVars, runs, uiVars>>

\* stream/route.ts:17-88 and 284-293: generateContentStream resolves or rejects
StreamModel ==
    /\ route = "stream"
    /\ rpc = "model"
    /\ \E reply \in {[k |-> "rejects"], [k |-> "stream"]} :
          /\ modelResult' = reply
          /\ response' = IF reply.k = "rejects"
                         THEN TextResponse(400, "Bad Request")
                         ELSE [status |-> 200, stream |-> "text/event-stream"]
    /\ calls' = Append(calls, "model")
    /\ rpc' = "done"
    /\ UNCHANGED <<route, body, enrichment, externalContext, streamVars, scoreVars, runs, uiVars>>

\* execute/route.ts:8-14 (and the catch, 35-40, when the body is no JSON)
ExecuteValidate ==
    /\ route = "execute"
    /\ rpc = "received"
    /\ IF body = Unparsable
       THEN response' = ExecutionFailedResponse([message |-> "Unexpected end of JSON input"])
            /\ rpc' = "done"
       ELSE IF ~ArrayIncludes(AllowedServices, Field(body, "service"))
            THEN response' = InvalidServiceResponse /\ rpc' = "done"
            ELSE response' = response /\ rpc' = "webhook"
    /\ UNCHANGED <<route, body, calls, enrichment, externalContext, modelResult,
                   streamVars, scoreVars, runs, uiVars>>

\* execute/route.ts:18-40: the webhook call resolves or rejects
ExecuteWebhook ==
    /\ route = "execute"
    /\ rpc = "webhook"
    /\ \E outcome \in WebhookOutcomes :
          response' = IF outcome.k = "rejects" THEN ExecutionFailedResponse(outcome)
                      ELSE ExecutedResponse(Field(body, "service"), outcome.status)
    /\ calls' = Append(calls, [to |-> "webhook", service |-> Field(body, "service")])
    /\ rpc' = "done"
    /\ UNCHANGED <<route, body, enrichment, externalContext, modelResult,
                   streamVars, scoreVars, runs, uiVars>>

RequestNext ==
    \/ SyncValidate
    \/ SyncEnrich
    \/ SyncModel
    \/ StreamValidate
    \/ StreamModel
    \/ ExecuteValidate
    \/ ExecuteWebhook

RequestSpec == RequestInit /\ [][RequestNext]_vars

-----------------------------------------------------------------------------
(* The page (src/unnamed/part_003): analysis, approval and execution *)

\* part_003:232
requireApproval == TRUE

\* what an analysis endpoint can hand to setResult: reports with and without
\* services, and the error body of a failed synchronous analysis
PageReport(names, statuses) ==
    [k |-> "object",
     services |-> ArrV([i \in 1..Len(names) |->
                          [k |-> "object", name |-> StrV(names[i]),
                           status |-> StrV(statuses[i])]])]

PageResults ==
    {PageReport(<<"primary-db", "cache">>, <<"down", "down">>),
     PageReport(<<"billing">>, <<"degraded">>),
     ErrorBody("Failed to analyze logs")}

\* part_003:370: data?.services?.[0]?.name ?? null
FirstServiceName(data) ==
    LET services == Field(data, "services")
    IN  IF IsArray(services) /\ Len(services.a) > 0
        THEN NullishOr(Field(services.a[1], "name"), Null)
        ELSE Null

\* the Execute Recovery button never disabled
ExecuteDisabled_never == FALSE

\* part_003:969: disabled={requireApproval && !approved}
ExecuteDisabled == requireApproval /\ ~approved

\* part_003:630-638: the steps simulateRecovery logs when the result has none
DefaultSteps ==
    << "Restarting primary DB instance...", "Scaling API servers...",
       "Enabling circuit breaker...", "Rebalancing load...",
       "Monitoring latency metrics..." >>

\* part_003:629-638
RunbookSteps(report) ==
    LET steps == Field(report, "recommended_runbook_steps")
    IN  IF IsArray(steps) /\ Len(steps.a) > 0
        THEN [i \in 1..Len(steps.a) |-> steps.a[i].s]
        ELSE DefaultSteps

\* part_003:648
totalTicks == 9

\* part_003:644, 718 and 716: the delays of the timers, in milliseconds
StepDelay == 800

TickDelay == 650

StabilizeDelay == 900

\* the time after the click at which the stabilisation timeout is due
StabilizedAt == totalTicks * TickDelay + StabilizeDelay

\* part_003:601-718: what one run of simulateRecovery leaves behind: its
\* closure (steps, start scores, tick), how far its timers have fired (clock,
\* the due time of the last one), whether its interval is still set and
\* whether its POST to /api/execute was answered
NewRecovery(report) ==
    [analysis |-> analysesStarted,
     steps |-> RunbookSteps(report),
     startSeverity |-> Whole(safeInt(NullishOr(Field(report, "severity_score"),
                                               NumV(OfInt(78))), OfInt(78))),
     startImpact |-> Whole(safeInt(NullishOr(Field(report, "business_impact_score"),
                                             NumV(OfInt(62))), OfInt(62))),
     tick |-> 0, clock |-> -1, ticking |-> TRUE, answered |-> FALSE]

\* the due times of the callbacks of a run that are still to fire
DueTimes(run) ==
    {(i - 1) * StepDelay : i \in {j \in 1..Len(run.steps) :
                                    (j - 1) * StepDelay > run.clock}}
    \cup (IF run.ticking THEN {(run.tick + 1) * TickDelay} ELSE {})
    \cup (IF run.tick >= totalTicks /\ run.clock < StabilizedAt
          THEN {StabilizedAt} ELSE {})

NextDue(run) == CHOOSE t \in DueTimes(run) : \A u \in DueTimes(run) : t <= u

\* the start scores whose double product falls short of a tie the exact
\* product reaches (IEEE 754 doubles, start in 0..100, tick in 1..9)
DoubleProductBelowTie(start, tick) ==
    \/ tick = 9 /\ start % 10 = 5
    \/ tick = 3 /\ start \in {45, 85}

\* part_003:668-669: Math.round(start * (1 - tick / (totalTicks + 1)))
DecayedScore(start, tick) ==
    IF DoubleProductBelowTie(start, tick)
    THEN (start * (totalTicks + 1 - tick)) \div (totalTicks + 1)
    ELSE RoundRatio(start * (totalTicks + 1 - tick), totalTicks + 1)

\* part_003:681-684: down becomes degraded, degraded becomes healthy
StatusStep(service) ==
    IF Field(service, "status") = StrV("down")
    THEN [service EXCEPT !.status = StrV("degraded")]
    ELSE IF Field(service, "status") = StrV("degraded")
    THEN [service EXCEPT !.status = StrV("healthy")]
    ELSE service

\* part_003:674-693: the updater the interval callback hands to setResult
TickResult(prev, run, tick) ==
    IF prev = Null THEN prev
    ELSE LET services == IF IsArray(Field(prev, "services"))
                         THEN prev.services.a ELSE <<>>
             nextServices ==
                 [idx \in 1..Len(services) |->
                     IF tick < (idx * totalTicks) \div MathMax(1, Len(services))
                     THEN services[idx] ELSE StatusStep(services[idx])]
             sev == clamp(DecayedScore(run.startSeverity, tick), 3, 100)
             imp == clamp(DecayedScore(run.startImpact, tick), 2, 100)
         IN  [f \in DOMAIN prev \cup {"services", "severity_score",
                                      "business_impact_score"} |->
                 CASE f = "services" -> ArrV(nextServices)
                   [] f = "severity_score" -> NumV(OfInt(sev))
                   [] f = "business_impact_score" -> NumV(OfInt(imp))
                   [] OTHER -> prev[f]]

\* window.clearInterval(recoveryIntervalRef.current)
ClearInterval(runsOf) ==
    [r \in 1..Len(runsOf) |->
        IF r = recoveryInterval THEN [runsOf[r] EXCEPT !.ticking = FALSE]
        ELSE runsOf[r]]

\* the runs that still have a callback to fire
LiveRuns == {r \in 1..Len(recoveries) : DueTimes(recoveries[r]) # {}}

PageInit ==
    /\ PageIdle
    /\ RequestIdle
    /\ modelText = <<>>
    /\ pos = 0
    /\ upstream = "open"
    /\ fullText = <<>>
    /\ finalSent = FALSE
    /\ jsonStarted = FALSE
    /\ lastNarrationSentIndex = 0
    /\ events = <<>>
    /\ pc = "reading"
    /\ modelJson = Undefined
    /\ streamReport = Undefined
    /\ syncResponse = Undefined
    /\ renormalized = Undefined

\* part_003:295-328: Analyze Incident clicked (the button is disabled while
\* loading); blank logs return at once
Analyze ==
    /\ ~loading
    /\ analysesStarted < MaxAnalyses
    /\ \E blank \in BOOLEAN :
          IF blank THEN UNCHANGED uiVars
          ELSE /\ loading' = TRUE
               /\ result' = Null
               /\ systemStatus' = "healthy"
               /\ approved' = FALSE
               /\ gotFinal' = FALSE
               /\ analysis' = "streaming"
               /\ analysesStarted' = analysesStarted + 1
               /\ executionLogs' = <<>>
               /\ recoveries' = ClearInterval(recoveries)
               /\ recoveryInterval' = 0
               /\ UNCHANGED <<selectedService, approvedIn, executePosts>>
    /\ UNCHANGED <<streamVars, scoreVars, runs, reqVars>>

\* part_003:357-371: a final event of the stream is handled
FinalEventHandled ==
    /\ analysis = "streaming"
    /\ ~gotFinal
    /\ \E data \in PageResults :
          /\ result' = data
          /\ selectedService' = FirstServiceName(data)
    /\ gotFinal' = TRUE
    /\ systemStatus' = "incident"
    /\ UNCHANGED <<loading, approved, analysis, analysesStarted, approvedIn,
                   executePosts, recVars, streamVars, scoreVars, runs, reqVars>>

\* part_003:378-394 and 426-428: the stream is done
StreamDone ==
    /\ analysis = "streaming"
    /\ IF gotFinal
       THEN analysis' = "idle" /\ loading' = FALSE
       ELSE analysis' = "fallback" /\ loading' = loading
    /\ UNCHANGED <<result, approved, systemStatus, selectedService, gotFinal,
                   analysesStarted, approvedIn, executePosts,
                   recVars, streamVars, scoreVars, runs, reqVars>>

\* part_003:333-335 and 409: the stream request fails or the reader throws
StreamThrows ==
    /\ analysis = "streaming"
    /\ analysis' = "catch-fallback"
    /\ UNCHANGED <<loading, result, approved, systemStatus, selectedService,
                   gotFinal, analysesStarted, approvedIn, executePosts,
                   recVars, streamVars, scoreVars, runs, reqVars>>

\* part_003:396-408 and 412-423: the fallback POST /api/analyze answers
FallbackReturns ==
    /\ analysis \in {"fallback", "catch-fallback"}
    /\ \E data \in PageResults :
          /\ result' = data
          /\ selectedService' = FirstServiceName(data)
    /\ systemStatus' = "incident"
    /\ analysis' = "idle"
    /\ loading' = FALSE
    /\ UNCHANGED <<approved, gotFinal, analysesStarted, approvedIn, executePosts,
                   recVars, streamVars, scoreVars, runs, reqVars>>

\* part_003:409-428: the fallback POST fails; the first one falls into the
\* catch, which posts again
FallbackThrows ==
    /\ analysis \in {"fallback", "catch-fallback"}
    /\ IF analysis = "fallback"
       THEN analysis' = "catch-fallback" /\ loading' = loading
       ELSE analysis' = "idle" /\ loading' = FALSE
    /\ UNCHANGED <<result, approved, systemStatus, selectedService, gotFinal,
                   analysesStarted, approvedIn, executePosts,
                   recVars, streamVars, scoreVars, runs, reqVars>>

\* part_003:958-964: Approve Execution clicked (rendered with a result, while
\* not approved)
ClickApprove ==
    /\ result # Null
    /\ ~approved
    /\ approved' = TRUE
    /\ approvedIn' = analysesStarted
    /\ UNCHANGED <<loading, result, systemStatus, selectedService, gotFinal,
                   analysis, analysesStarted, executePosts,
                   recVars, streamVars, scoreVars, runs, reqVars>>

\* part_003:601-627 and 967-972: Execute Recovery clicked (rendered with a
\* result): simulateRecovery posts to /api/execute and starts the recovery
ClickExecute ==
    /\ result # Null
    /\ ~ExecuteDisabled
    /\ Len(executePosts) < MaxExecutes
    /\ Cardinality(LiveRuns) < MaxLiveRuns
    /\ executePosts' =
          Append(executePosts,
                 [service |-> NullishOr(selectedService, StrV("api-gateway")),
                  approved |-> approved,
                  analysis |-> analysesStarted,
                  approvedIn |-> approvedIn])
    /\ systemStatus' = "recovering"
    /\ recoveries' = Append(ClearInterval(recoveries), NewRecovery(result))
    /\ recoveryInterval' = Len(recoveries) + 1
    /\ UNCHANGED <<loading, result, approved, selectedService, gotFinal,
                   analysis, analysesStarted, approvedIn, executionLogs,
                   streamVars, scoreVars, runs, reqVars>>

\* part_003:641-645: the timeout of a runbook step of run r fires
StepTimeout(r) ==
    /\ r \in 1..Len(recoveries)
    /\ DueTimes(recoveries[r]) # {}
    /\ LET run == recoveries[r]
           due == NextDue(run)
       IN  /\ ~(run.ticking /\ due = (run.tick + 1) * TickDelay)
           /\ ~(run.tick >= totalTicks /\ due = StabilizedAt)
           /\ executionLogs' = Append(executionLogs, run.steps[due \div StepDelay + 1])
           /\ recoveries' = [recoveries EXCEPT ![r].clock = due]
    /\ UNCHANGED <<loading, result, approved, systemStatus, selectedService,
                   gotFinal, analysis, analysesStarted, approvedIn, executePosts,
                   recoveryInterval,
                   streamVars, scoreVars, runs, reqVars>>

\* part_003:664-718: the interval of run r ticks; the last tick clears the
\* interval and sets the stabilisation timeout
IntervalTick(r) ==
    /\ r \in 1..Len(recoveries)
    /\ DueTimes(recoveries[r]) # {}
    /\ LET run == recoveries[r]
           due == NextDue(run)
           tick == run.tick + 1
       IN  /\ run.ticking /\ due = tick * TickDelay
           /\ result' = TickResult(result, run, tick)
           /\ recoveries' = [recoveries EXCEPT
                                ![r].clock = due, ![r].tick = tick,
                                ![r].ticking = (tick < totalTicks)]
           /\ recoveryInterval' = IF tick >= totalTicks THEN 0 ELSE recoveryInterval
    /\ UNCHANGED <<loading, approved, systemStatus, selectedService, gotFinal,
                   analysis, analysesStarted, approvedIn, executePosts,
                   executionLogs,
                   streamVars, scoreVars, runs, reqVars>>

\* part_003:712-716: the stabilisation timeout of run r fires
StabilizeTimeout(r) ==
    /\ r \in 1..Len(recoveries)
    /\ DueTimes(recoveries[r]) # {}
    /\ LET run == recoveries[r]
           due == NextDue(run)
       IN  /\ ~(run.ticking /\ due = (run.tick + 1) * TickDelay)
           /\ run.tick >= totalTicks /\ due = StabilizedAt
           /\ systemStatus' = "healthy"
           /\ executionLogs' = Append(executionLogs, "System stabilized")
           /\ recoveries' = [recoveries EXCEPT ![r].clock = due]
    /\ UNCHANGED <<loading, result, approved, selectedService, gotFinal,
                   analysis, analysesStarted, approvedIn, executePosts,
                   recoveryInterval,
                   streamVars, scoreVars, runs, reqVars>>

\* part_003:610-623: the POST to /api/execute of run r is answered, or fails.
\* The answer, when one comes, comes after the timeout of the first step
\* (0 ms) and before the first tick (650 ms) of its run.
ExecuteAnswered(r) ==
    /\ r \in 1..Len(recoveries)
    /\ ~recoveries[r].answered
    /\ recoveries[r].clock = 0
    /\ recoveries[r].tick = 0
    /\ recoveries' = [recoveries EXCEPT ![r].answered = TRUE]
    /\ \E ok \in BOOLEAN :
          executionLogs' =
              IF ok THEN executionLogs \o <<"Infra API call sent", "Webhook status">>
              ELSE Append(executionLogs, "Infra execution call failed")
    /\ UNCHANGED <<loading, result, approved, systemStatus, selectedService,
                   gotFinal, analysis, analysesStarted, approvedIn, executePosts,
                   recoveryInterval,
                   streamVars, scoreVars, runs, reqVars>>

\* part_003:1196: a service of the result clicked
SelectService ==
    /\ IsArray(Field(result, "services"))
    /\ \E i \in 1..Len(result.services.a) :
          selectedService' = result.services.a[i].name
    /\ UNCHANGED <<loading, result, approved, systemStatus, gotFinal, analysis,
                   analysesStarted, approvedIn, executePosts,
                   recVars, streamVars, scoreVars, runs, reqVars>>

PageNext ==
    \/ Analyze
    \/ FinalEventHandled
    \/ StreamDone
    \/ StreamThrows
    \/ FallbackReturns
    \/ FallbackThrows
    \/ ClickApprove
    \/ ClickExecute
    \/ \E r \in 1..MaxExecutes : StepTimeout(r)
    \/ \E r \in 1..MaxExecutes : IntervalTick(r)
    \/ \E r \in 1..MaxExecutes : StabilizeTimeout(r)
    \/ \E r \in 1..MaxExecutes : ExecuteAnswered(r)
    \/ SelectService

PageSpec == PageInit /\ [][PageNext]_vars

-----------------------------------------------------------------------------
(* Properties of the reports *)

\* the stream sent a final event whose data is a JSON object
StreamReported == "k" \in DOMAIN streamReport /\ streamReport.k = "object"

\* the whole score a supplied value stands for: rounded, kept inside 0..100,
\* and 0 when it is no finite number
AiScore(v) ==
    LET n == Number(v)
    IN  IF ~NumberIsFinite(n) \/ n.x <= 0 THEN 0
        ELSE IF n.x >= OfInt(100) THEN 100
        ELSE (n.x + 1) \div (1 + 1)

\* the services of a report with the given status
StatusCount(services, status) ==
    IF IsArray(services)
    THEN Cardinality({i \in 1..Len(services.a) :
                         Field(services.a[i], "status") = StrV(status)})
    ELSE 0

\* section 4.1: +35 per down, +15 per degraded
AdditiveSeverity(services) ==
    LET sum == 35 * StatusCount(services, "down")
               + 15 * StatusCount(services, "degraded")
    IN  IF sum > 100 THEN 100 ELSE sum

\* section 4.1: +70 if >= 2 down, +45 if exactly 1 down, +10 per degraded
ThresholdSeverity(services) ==
    LET down == StatusCount(services, "down")
        sum == (IF down >= 2 THEN 70 ELSE IF down = 1 THEN 45 ELSE 0)
               + 10 * StatusCount(services, "degraded")
    IN  IF sum > 100 THEN 100 ELSE sum

Larger(a, b) == IF a > b THEN a ELSE b

\* a whole number in 0..100
IsScore(v) == v.k = "number" /\ IsInt(v.x) /\ 0 <= v.x /\ v.x <= OfInt(100)

\* a finite number in [0, 1]
IsProbability(v) == v.k = "number" /\ 0 <= v.x /\ v.x <= OfInt(1)

\* C3: in both routes the severity_score of the report is the larger of the
\* supplied severity (as a score in 0..100) and the deterministic severity of
\* the report's services, so it is never below that deterministic severity.
C3_SeverityFloor ==
    /\ StreamReported =>
          streamReport.severity_score =
              NumV(OfInt(Larger(AiScore(Field(modelJson, "severity_score")),
                                AdditiveSeverity(streamReport.services))))
    /\ syncResponse # Undefined =>
          syncResponse.severity_score =
              NumV(OfInt(Larger(AiScore(Field(modelJson, "severity_score")),
                                ThresholdSeverity(syncResponse.services))))

\* C3 witness: the model reported no severity, two services are down, and both
\* routes report at least the severity of two services down
C3_Witness ==
    /\ StreamReported
    /\ syncResponse # Undefined
    /\ AiScore(Field(modelJson, "severity_score")) = 0
    /\ StatusCount(Field(modelJson, "services"), "down") = 2
    /\ StatusCount(syncResponse.services, "down") = 2
    /\ streamReport.severity_score.x >= OfInt(70)
    /\ syncResponse.severity_score.x >= OfInt(70)

NonIncreasing(causes) ==
    \A i \in 1..(Len(causes) - 1) :
        /\ Field(causes[i], "probability").k = "number"
        /\ Field(causes[i + 1], "probability").k = "number"
        /\ Field(causes[i], "probability").x >= Field(causes[i + 1], "probability").x

\* C4 (as claimed): the report of a stream final event is normalized: at least 3
\* services, every status one of healthy, degraded, down, probable_causes sorted
\* by descending probability and at most 5, and a propagation of at least 2 nodes.
C4_StreamReportNormalized ==
    StreamReported =>
        /\ IsArray(streamReport.services)
        /\ Len(streamReport.services.a) >= 3
        /\ \A i \in 1..Len(streamReport.services.a) :
              Field(streamReport.services.a[i], "status")
                  \in {StrV("healthy"), StrV("degraded"), StrV("down")}
        /\ IsArray(streamReport.probable_causes)
        /\ Len(streamReport.probable_causes.a) <= 5
        /\ NonIncreasing(streamReport.probable_causes.a)
        /\ ArrayLength(Field(streamReport.propagation, "nodes")) >= 2

\* C5 (as claimed): for one parsed model JSON the two routes report the same
\* severity_score, business_impact_score, confidence, services and propagation.
C5_SameSemantics ==
    (StreamReported /\ syncResponse # Undefined) =>
        /\ streamReport.severity_score = syncResponse.severity_score
        /\ streamReport.business_impact_score = syncResponse.business_impact_score
        /\ streamReport.confidence = syncResponse.confidence
        /\ streamReport.services = syncResponse.services
        /\ streamReport.propagation = syncResponse.propagation

\* C8: severity_score and business_impact_score of every report of either route
\* are whole numbers in 0..100, whatever the supplied scores were.
C8_ScoresAreIntegers ==
    /\ StreamReported =>
          IsScore(streamReport.severity_score)
          /\ IsScore(streamReport.business_impact_score)
    /\ syncResponse # Undefined =>
          IsScore(syncResponse.severity_score)
          /\ IsScore(syncResponse.business_impact_score)

\* C8 witness: a fractional severity and an impact above 100 were supplied and
\* both routes have reported
C8_Witness ==
    /\ Field(modelJson, "severity_score") = NumV(85)
    /\ Field(modelJson, "business_impact_score") = NumV(OfInt(250))
    /\ StreamReported
    /\ syncResponse # Undefined
    /\ syncResponse.severity_score = NumV(OfInt(43))

ReportNumbersInBounds(report) ==
    /\ report.estimated_recovery_time_minutes.k = "number"
    /\ report.estimated_recovery_time_minutes.x >= 0
    /\ IsProbability(report.confidence)
    /\ IsArray(report.probable_causes) =>
          \A i \in 1..Len(report.probable_causes.a) :
              IsProbability(Field(report.probable_causes.a[i], "probability"))

\* C9 (as claimed): in every report of either route estimated_recovery_time_minutes
\* is a finite number >= 0, confidence is in [0,1] and every cause's probability
\* is in [0,1].
C9_NumbersInBounds ==
    /\ StreamReported => ReportNumbersInBounds(streamReport)
    /\ syncResponse # Undefined => ReportNumbersInBounds(syncResponse)

\* C10 (as claimed): the services of the synchronous route's report are at
\* least 3.
C10_AtLeastThreeServices ==
    syncResponse # Undefined => Len(syncResponse.services.a) >= 3

\* C11 (as claimed): the propagation of the synchronous route's report has at
\* least 2 nodes, whether it was supplied or rebuilt from the services.
C11_PropagationTwoNodes ==
    syncResponse # Undefined => Len(syncResponse.propagation.nodes.a) >= 2

\* C12 (as claimed): the normalization steps of the synchronous route, run on
\* a report the route has produced, give back that report: services,
\* propagation, probable_causes, runbook steps and scalar fields all unchanged.
C12_NormalizerFixedPoint ==
    renormalized # Undefined => renormalized = syncResponse

\* the text holds the word, letter case ignored
ContainsIgnoringCase(text, word) ==
    \E i \in 0..(Len(text) - Len(word)) :
        \A j \in 1..Len(word) : LowerOf(text[i + j]) = word[j]

\* the incident type of the answer holds one of outage, down, critical
EscalatingIncident(answer) ==
    LET t == Field(answer, "incident_type")
    IN  /\ t.k = "string"
        /\ \/ ContainsIgnoringCase(t.s, <<"o", "u", "t", "a", "g", "e">>)
           \/ ContainsIgnoringCase(t.s, <<"d", "o", "w", "n">>)
           \/ ContainsIgnoringCase(t.s, <<"c", "r", "i", "t", "i", "c", "a", "l">>)

NamesAndStatuses(services) ==
    [i \in 1..Len(services) |->
        <<Field(services[i], "name"), Field(services[i], "status")>>]

\* C13: when the answer's services value has fewer than 3 entries or is not an
\* array, the services of the synchronous report are exactly api-gateway,
\* primary-db, cache, with statuses down, down, degraded when the incident
\* type holds outage, down or critical (any letter case) and degraded,
\* degraded, healthy otherwise.
C13_FallbackTopology ==
    (syncResponse # Undefined /\ ArrayLength(Field(modelJson, "services")) < 3) =>
        NamesAndStatuses(syncResponse.services.a) =
            IF EscalatingIncident(modelJson)
            THEN << <<StrV("api-gateway"), StrV("down")>>,
                    <<StrV("primary-db"), StrV("down")>>,
                    <<StrV("cache"), StrV("degraded")>> >>
            ELSE << <<StrV("api-gateway"), StrV("degraded")>>,
                    <<StrV("primary-db"), StrV("degraded")>>,
                    <<StrV("cache"), StrV("healthy")>> >>

\* C13 witness: two services were supplied with an upper-case incident type
\* holding DOWN, and the report carries the escalated fallback topology
C13_Witness ==
    /\ syncResponse # Undefined
    /\ ArrayLength(Field(modelJson, "services")) = 2
    /\ Field(modelJson, "incident_type") = StrV(<<"S", "H", "U", "T", "D", "O", "W", "N">>)
    /\ Len(syncResponse.services.a) = 3
    /\ syncResponse.services.a[1].status = StrV("down")

\* the value is a report: an object with every field of the report
IsReport(v) ==
    /\ "k" \in DOMAIN v
    /\ v.k = "object"
    /\ DOMAIN MissingFields \subseteq DOMAIN v

\* C15 (as claimed): for every answer that parses as JSON (object, array, null,
\* number or string) the stream sends a final event carrying a report and the
\* synchronous route returns a report, never an error.
C15_NormalizationNeverFails ==
    /\ streamReport # Undefined => IsReport(streamReport)
    /\ syncResponse # Undefined => IsReport(syncResponse)

C16_AbortSilent ==
    upstream = "failed" =>
        /\ pc = "closed"
        /\ TerminalIndexes = {}

\* C17 (as claimed): once a terminal event (final or error) has been sent, the
\* accumulated text fullText is empty.
C17_BufferReleased ==
    TerminalIndexes # {} => fullText = <<>>

-----------------------------------------------------------------------------
(* Properties of a request *)

\* the reply is text from which the route extracts a JSON value
ReplyParses == modelResult.k = "text" /\ safeJSONParse(modelResult.text).ok

\* C18: a finished synchronous request answers either with an error status and
\* a body holding nothing but the error (when the model call failed, when its
\* text gave no JSON, or when the request was rejected), or with status 200 and
\* every field of the report plus the enrichment text that was used.
C18_NoPartialReport ==
    (route = "sync" /\ rpc = "done") =>
        IF ReplyParses
        THEN /\ response.status = 200
             /\ DOMAIN response.json =
                    DOMAIN MissingFields \cup {"external_intelligence"}
             /\ response.json.external_intelligence = externalContext
             /\ IsScore(response.json.severity_score)
             /\ IsArray(response.json.services)
        ELSE /\ response.status \in {400, 500}
             /\ DOMAIN response.json = {"k", "error"}

\* C18 witness: the enrichment gave summaries, the model answered with text
\* that holds no JSON, and the response is the error
C18_Witness ==
    /\ route = "sync"
    /\ rpc = "done"
    /\ modelResult.k = "text"
    /\ ~safeJSONParse(modelResult.text).ok
    /\ Len(externalContext) = 2
    /\ response.status = 500

\* logs of the body is missing, is no text, or is blank
LogsUnusable ==
    /\ body # Unparsable
    /\ LET logs == Field(body, "logs")
       IN  \/ logs.k # "string"
           \/ \A i \in 1..Len(logs.s) : logs.s[i] = Blank

\* C19: when logs is missing, not text, or blank, the request (to either
\* endpoint) makes no call to the enrichment or the model, and ends with
\* status 400.
C19_InputRejected ==
    (route \in {"sync", "stream"} /\ LogsUnusable) =>
        /\ calls = <<>>
        /\ rpc \in {"received", "done"}
        /\ rpc = "done" => response.status = 400

\* C19 witness: a synchronous request with blank logs has been answered
C19_Witness ==
    /\ route = "sync"
    /\ Field(body, "logs") = StrV(<<Blank, Blank>>)
    /\ rpc = "done"
    /\ response.status = 400

\* the enrichment call failed in transport, its body was unreadable, or it
\* brought no summaries
EnrichmentFailed ==
    \/ enrichment.k \in {"fetch-rejects", "body-unreadable"}
    \/ /\ enrichment.k = "json"
       /\ ArrayLength(Field(enrichment.data, "summaries")) = 0

\* C20: after a failed enrichment call the enrichment text is one of the two
\* fixed placeholders, the request goes on to the model call, and the response
\* is decided by the model's answer alone: a reply that parses gives status 200
\* with the placeholder as external_intelligence.
C20_EnrichmentAbsorbed ==
    (route = "sync" /\ EnrichmentFailed) =>
        /\ externalContext \in {NoContext, SearchUnavailable}
        /\ rpc \in {"model", "done"}
        /\ rpc = "done" =>
              /\ calls = <<"search-context", "model">>
              /\ ReplyParses =>
                    /\ response.status = 200
                    /\ response.json.external_intelligence = externalContext

\* C20 witness: the enrichment call failed in transport and the analysis was
\* returned with status 200
C20_Witness ==
    /\ route = "sync"
    /\ enrichment.k = "fetch-rejects"
    /\ rpc = "done"
    /\ response.status = 200

\* the service of the execute request is one of the three known services
KnownService(v) == v \in {StrV("api-gateway"), StrV("primary-db"), StrV("cache")}

\* C21: the execute endpoint calls the webhook only for a service that is
\* api-gateway, primary-db or cache; for a body whose service is anything else
\* (missing and non-string included) no webhook call is made and the response
\* has status 400.
C21_ExecuteAllowList ==
    route = "execute" =>
        /\ \A i \in 1..Len(calls) : KnownService(calls[i].service)
        /\ (body # Unparsable /\ ~KnownService(Field(body, "service"))) =>
              /\ calls = <<>>
              /\ rpc \in {"received", "done"}
              /\ rpc = "done" => response.status = 400

\* C21 witness: a request for API-GATEWAY in upper case was answered 400, with
\* no call made
C21_Witness ==
    /\ route = "execute"
    /\ Field(body, "service") = StrV("API-GATEWAY")
    /\ rpc = "done"
    /\ response.status = 400
    /\ calls = <<>>

-----------------------------------------------------------------------------
(* Properties of the page *)

\* C22: every POST to /api/execute the page issued was issued with approved
\* true, and the approval was given during the analysis that was the most
\* recent one when the POST was issued (starting an analysis resets approval).
C22_ExecuteOnlyApproved ==
    \A i \in 1..Len(executePosts) :
        /\ executePosts[i].approved
        /\ executePosts[i].approvedIn = executePosts[i].analysis

\* C22 witness: an execution was approved in the first analysis, a second
\* analysis was started, approved again and executed
C22_Witness ==
    /\ Len(executePosts) = 2
    /\ executePosts[1].analysis = 1
    /\ executePosts[2].analysis = 2
    /\ executePosts[2].approvedIn = 2

-----------------------------------------------------------------------------
(* Properties of the synchronous report's causes and scores *)

\* the causes of the answer, as a sequence (none when it is no array)
SuppliedCauses ==
    IF IsArray(Field(modelJson, "probable_causes"))
    THEN Field(modelJson, "probable_causes").a ELSE <<>>

\* a supplied cause whose name is kept: no string (it is named Unknown Cause),
\* or a string that is not blank
NamedCause(c) ==
    Field(c, "name").k # "string" \/ Field(c, "name").s \notin {"", " "}

\* the probability of a supplied cause as a number of halves in 0..2
CauseProbability(c) ==
    LET p == Field(c, "probability")
    IN  IF p.k # "number" THEN 0
        ELSE IF p.x < 0 THEN 0 ELSE IF p.x > OfInt(1) THEN OfInt(1) ELSE p.x

Least(a, b) == IF a < b THEN a ELSE b

\* C23: in the synchronous report probable_causes is sorted by non-increasing
\* probability, has at most 5 entries, has no entry with an empty or blank
\* name, and holds the highest-probability named causes of the answer: for
\* every probability p, as many entries at or above p as the answer has named
\* causes at or above p, up to 5.
C23_CausesSortedCapped ==
    syncResponse # Undefined =>
        LET causes == syncResponse.probable_causes.a
        IN  /\ Len(causes) <= 5
            /\ \A i \in 1..(Len(causes) - 1) :
                  causes[i].probability.x >= causes[i + 1].probability.x
            /\ \A i \in 1..Len(causes) : causes[i].name.s \notin {"", " "}
            /\ \A p \in 0..OfInt(1) :
                  Cardinality({i \in 1..Len(causes) : causes[i].probability.x >= p})
                  = Least(5, Cardinality({i \in 1..Len(SuppliedCauses) :
                                            /\ NamedCause(SuppliedCauses[i])
                                            /\ CauseProbability(SuppliedCauses[i]) >= p}))

\* C23 witness: six causes were supplied in rising order of probability and the
\* report keeps five of them, the most probable first
C23_Witness ==
    /\ syncResponse # Undefined
    /\ Len(SuppliedCauses) = 6
    /\ CauseProbability(SuppliedCauses[1]) = 0
    /\ CauseProbability(SuppliedCauses[6]) = OfInt(1)
    /\ Len(syncResponse.probable_causes.a) = 5
    /\ syncResponse.probable_causes.a[1].probability.x = OfInt(1)

-----------------------------------------------------------------------------
(* Properties of the deterministic scores *)

\* the node and edge counts of a report's propagation
NodeCount(propagation) == ArrayLength(Field(propagation, "nodes"))

EdgeCount(propagation) == ArrayLength(Field(propagation, "edges"))

\* section 4.1: clamp(5 x node_count + 8 x edge_count, 0, 100)
TopologyImpact(propagation) ==
    Least(100, 5 * NodeCount(propagation) + 8 * EdgeCount(propagation))

\* section 4.1: round(((down_count + 0.5 x degraded_count) / total) x 100) in
\* exact arithmetic, ties up, and 0 if there are no services
BlastRadius(services) ==
    LET total == ArrayLength(services)
        halves == StatusCount(services, "down") + StatusCount(services, "down")
                  + StatusCount(services, "degraded")
    IN  IF total = 0 THEN 0
        ELSE Least(100, (halves * 100 + total) \div (total + total))

\* section 4.1: clamp(round(0.5 x ai + 0.3 x det + 0.2 x blast), 0, 100) in
\* exact arithmetic, ties up
BlendedImpact(ai, det, blast) ==
    Least(100, (5 * ai + 3 * det + 2 * blast + 5) \div 10)

\* C24 (as claimed): in both routes the business_impact_score of the report is
\* clamp(round(0.5 x ai_impact + 0.3 x deterministic_impact + 0.2 x
\* blast_radius), 0, 100), for the supplied impact as a score in 0..100, the
\* deterministic impact of the report's propagation and the blast radius of
\* the report's services.
C24_WeightedImpact ==
    /\ StreamReported =>
          streamReport.business_impact_score =
              NumV(OfInt(BlendedImpact(
                  AiScore(Field(modelJson, "business_impact_score")),
                  TopologyImpact(streamReport.propagation),
                  BlastRadius(streamReport.services))))
    /\ syncResponse # Undefined =>
          syncResponse.business_impact_score =
              NumV(OfInt(BlendedImpact(
                  AiScore(Field(modelJson, "business_impact_score")),
                  TopologyImpact(syncResponse.propagation),
                  BlastRadius(syncResponse.services))))

\* the propagation the streaming route scores: the answer's, or an empty one
StreamPropagation ==
    IF IsObjectLike(streamReport.propagation) THEN streamReport.propagation
    ELSE EmptyPropagation

\* the propagation the synchronous route scores
SyncPropagation ==
    [nodes |-> syncResponse.propagation.nodes.a,
     edges |-> syncResponse.propagation.edges.a]

\* C25: in both routes the deterministic impact of a propagation is
\* clamp(5 x node_count + 8 x edge_count, 0, 100): 31 for 3 nodes and 2 edges,
\* and 100 once 5 x node_count + 8 x edge_count reaches 100.
C25_DeterministicImpact ==
    /\ StreamReported =>
          /\ calculateImpactFromPropagation_stream(StreamPropagation)
             = OfInt(TopologyImpact(streamReport.propagation))
          /\ NodeCount(streamReport.propagation) = 3
             /\ EdgeCount(streamReport.propagation) = 2
             => calculateImpactFromPropagation_stream(StreamPropagation) = OfInt(31)
    /\ syncResponse # Undefined =>
          /\ calculateImpactFromPropagation(SyncPropagation)
             = OfInt(TopologyImpact(syncResponse.propagation))
          /\ NodeCount(syncResponse.propagation) = 3
             /\ EdgeCount(syncResponse.propagation) = 2
             => calculateImpactFromPropagation(SyncPropagation) = OfInt(31)
          /\ 5 * NodeCount(syncResponse.propagation)
             + 8 * EdgeCount(syncResponse.propagation) >= 100
             => calculateImpactFromPropagation(SyncPropagation) = OfInt(100)

\* C25 witness: both routes scored a propagation of 3 nodes and 13 edges, whose
\* weighted count of 119 saturates at 100
C25_Witness ==
    /\ StreamReported
    /\ syncResponse # Undefined
    /\ NodeCount(streamReport.propagation) = 3
    /\ EdgeCount(streamReport.propagation) = 13
    /\ NodeCount(syncResponse.propagation) = 3
    /\ EdgeCount(syncResponse.propagation) = 13
    /\ calculateImpactFromPropagation_stream(StreamPropagation) = OfInt(100)
    /\ calculateImpactFromPropagation(SyncPropagation) = OfInt(100)

\* the services the streaming route scores: the answer's, or none
StreamServices ==
    IF IsArray(streamReport.services) THEN streamReport.services.a ELSE <<>>

\* the services the synchronous route scores
SyncServices ==
    NormalizeServices(modelJson,
                      toStringSafe(Field(modelJson, "incident_type"), UnknownIncident))

\* C26: in the streaming route the deterministic severity of a services list is
\* clamp(35 x (services with status down) + 15 x (services with status
\* degraded), 0, 100); it is the severity_score of the report when the answer
\* supplies no severity.
C26_StreamSeverityAdditive ==
    StreamReported =>
        /\ calculateSeverityFromServices_stream(StreamServices)
           = OfInt(AdditiveSeverity(streamReport.services))
        /\ AiScore(Field(modelJson, "severity_score")) = 0
           => streamReport.severity_score
              = NumV(OfInt(AdditiveSeverity(streamReport.services)))

\* C26 witness: the streaming route scored two services down and one degraded,
\* with no severity supplied, and reports 85
C26_Witness ==
    /\ StreamReported
    /\ Field(modelJson, "severity_score") = Undefined
    /\ StatusCount(streamReport.services, "down") = 2
    /\ StatusCount(streamReport.services, "degraded") = 1
    /\ streamReport.severity_score = NumV(OfInt(85))

\* C27: in the synchronous route the deterministic severity of a services list
\* is clamp((70 if at least 2 services are down, 45 if exactly 1 is down, else
\* 0) + 10 x (degraded services), 0, 100); it is the severity_score of the
\* report when the answer supplies no severity.
C27_SyncSeverityThreshold ==
    syncResponse # Undefined =>
        /\ calculateSeverityFromServices(SyncServices)
           = OfInt(ThresholdSeverity(syncResponse.services))
        /\ AiScore(Field(modelJson, "severity_score")) = 0
           => syncResponse.severity_score
              = NumV(OfInt(ThresholdSeverity(syncResponse.services)))

\* C27 witness: the synchronous route scored two services down and one
\* degraded, with no severity supplied, and reports 80
C27_Witness ==
    /\ syncResponse # Undefined
    /\ Field(modelJson, "severity_score") = Undefined
    /\ StatusCount(syncResponse.services, "down") = 2
    /\ StatusCount(syncResponse.services, "degraded") = 1
    /\ syncResponse.severity_score = NumV(OfInt(80))

\* C28 (as claimed): in both routes the blast radius of a services list is
\* round(((down_count + 0.5 x degraded_count) / total) x 100), is 0 when there
\* are no services, and lies in [0,100].
C28_BlastRadius ==
    /\ StreamReported =>
          /\ calculateBlastRadius_stream(StreamServices)
             = OfInt(BlastRadius(streamReport.services))
          /\ StreamServices = <<>> => calculateBlastRadius_stream(StreamServices) = 0
          /\ calculateBlastRadius_stream(StreamServices) \in 0..OfInt(100)
    /\ syncResponse # Undefined =>
          /\ calculateBlastRadius(SyncServices)
             = OfInt(BlastRadius(syncResponse.services))
          /\ calculateBlastRadius(SyncServices) \in 0..OfInt(100)

-----------------------------------------------------------------------------
(* Properties of the services and the propagation of the synchronous report *)

\* the answer has no propagation, or one whose nodes or edges are no array
PropagationUnusable ==
    \/ ~IsArray(Field(Field(modelJson, "propagation"), "nodes"))
    \/ ~IsArray(Field(Field(modelJson, "propagation"), "edges"))

\* C29 (as claimed): when the answer's propagation is absent or malformed, the
\* propagation of the synchronous report is built over the first three
\* services only: its nodes are those three services, and its edges are exactly
\* services[0] -> services[1] labelled depends_on and services[0] ->
\* services[2] labelled uses_cache.
C29_SynthesizedPropagation ==
    syncResponse # Undefined /\ PropagationUnusable =>
        LET services == syncResponse.services.a
            nodes == syncResponse.propagation.nodes.a
            edges == syncResponse.propagation.edges.a
        IN  /\ Len(services) >= 3
            /\ Len(nodes) = 3
            /\ \A i \in 1..3 : /\ nodes[i].id = services[i].name
                               /\ nodes[i].label = services[i].name
            /\ Len(edges) = 2
            /\ edges[1] = [k |-> "object", from |-> services[1].name,
                           to |-> services[2].name, label |-> StrV("depends_on")]
            /\ edges[2] = [k |-> "object", from |-> services[1].name,
                           to |-> services[3].name, label |-> StrV("uses_cache")]

\* the services of the answer in the answer's order, coerced to name, status,
\* signals and suspected components
SuppliedServices == MapServices(modelJson)

\* the first position of the name among the supplied services
FirstSupplied(name) ==
    CHOOSE j \in 1..Len(SuppliedServices) :
        /\ SuppliedServices[j].name = name
        /\ \A i \in 1..(j - 1) : SuppliedServices[i].name # name

\* C30: in the report of the synchronous route the service names are pairwise
\* distinct; when the answer supplies at least three services, every supplied
\* name is reported once, in the order of its first occurrence, and the
\* reported service of a name is the first supplied service with that name.
C30_FirstOccurrenceWins ==
    syncResponse # Undefined =>
        LET services == syncResponse.services.a
        IN  /\ \A i, j \in 1..Len(services) :
                  i # j => services[i].name # services[j].name
            /\ Len(SuppliedServices) >= 3 =>
                  /\ \A j \in 1..Len(SuppliedServices) :
                        \E i \in 1..Len(services) :
                            services[i].name = StrV(SuppliedServices[j].name)
                  /\ \A i \in 1..Len(services) :
                        /\ \E j \in 1..Len(SuppliedServices) :
                              SuppliedServices[j].name = services[i].name.s
                        /\ services[i]
                           = ServiceJSON(SuppliedServices[FirstSupplied(services[i].name.s)])
                  /\ \A i \in 1..(Len(services) - 1) :
                        FirstSupplied(services[i].name.s)
                        < FirstSupplied(services[i + 1].name.s)

\* C30 witness: the answer names its first service twice, with two statuses,
\* and the report keeps two services, the first with the first status
C30_Witness ==
    /\ syncResponse # Undefined
    /\ Len(SuppliedServices) = 3
    /\ SuppliedServices[1].name = SuppliedServices[2].name
    /\ SuppliedServices[1].status # SuppliedServices[2].status
    /\ Len(syncResponse.services.a) = 2
    /\ syncResponse.services.a[1] = ServiceJSON(SuppliedServices[1])

\* the three values of a service status
ServiceStatuses == {StrV("healthy"), StrV("degraded"), StrV("down")}

\* the services of the answer as supplied, or none
RawServices ==
    IF IsArray(Field(modelJson, "services")) THEN Field(modelJson, "services").a
    ELSE <<>>

\* C31: every service of the synchronous report has status healthy, degraded
\* or down; when the supplied services are reported one for one, a supplied
\* status of the enum is kept and any other (missing, a number, another letter
\* case, other text) is reported as degraded.
C31_StatusInEnum ==
    syncResponse # Undefined =>
        LET services == syncResponse.services.a
        IN  /\ \A i \in 1..Len(services) : services[i].status \in ServiceStatuses
            /\ Len(RawServices) >= 3 /\ Len(services) = Len(RawServices) =>
                  \A i \in 1..Len(services) :
                      services[i].status =
                          IF Field(RawServices[i], "status") \in ServiceStatuses
                          THEN Field(RawServices[i], "status")
                          ELSE StrV("degraded")

\* C31 witness: the answer's three services have the statuses Healthy, 1 and
\* none, and all three are reported as degraded
C31_Witness ==
    /\ syncResponse # Undefined
    /\ Len(RawServices) = 3
    /\ Field(RawServices[1], "status") = StrV("Healthy")
    /\ Field(RawServices[2], "status") = NumV(OfInt(1))
    /\ Field(RawServices[3], "status") = Undefined
    /\ Len(syncResponse.services.a) = 3
    /\ \A i \in 1..3 : syncResponse.services.a[i].status = StrV("degraded")

-----------------------------------------------------------------------------
(* Two invocations of the streaming route under way at once *)

Invocations == 1..2

PairFragLen == 2

PairTexts ==
    {<<Narr>> \o OpenTag \o <<Payload90>> \o CloseTag,
     OpenTag \o <<PayloadNull>> \o CloseTag,
     <<Narr, Narr>>,
     <<Narr, OpenA>>}

\* stream/route.ts:88-107: the variables one invocation of POST declares
NewRun(text) ==
    [modelText |-> text, pos |-> 0, upstream |-> "open", fullText |-> <<>>,
     finalSent |-> FALSE, jsonStarted |-> FALSE, lastNarrationSentIndex |-> 0,
     events |-> <<>>, pc |-> "reading"]

\* a buffer declared once for the module, which every invocation appends to
BufferOf_shared(rs, i) == rs[1].run.fullText

\* stream/route.ts:91: let fullText, declared inside POST
BufferOf(rs, i) == rs[i].run.fullText

\* stream/route.ts:109-264: one iteration of for await on the variables of one
\* invocation, with the buffer it reads
RunChunk(st, buffer, n) ==
    LET text == Slice(st.modelText, st.pos, st.pos + n)
        full == buffer \o text
        narrating == ~st.finalSent /\ ~st.jsonStarted
        sent == IF narrating
                THEN st.events \o NarrationEvents(full, text, st.jsonStarted,
                                                  st.lastNarrationSentIndex)
                ELSE st.events
        parsed == JSONParse(JsonText(full))
        started == st.jsonStarted \/ (narrating /\ IndexOf(full, OpenTag) # -1)
    IN  IF ~st.finalSent /\ BlockComplete(full)
        THEN IF parsed.ok /\ ~ScoringThrows(parsed.value)
             THEN [st EXCEPT !.pos = @ + n, !.jsonStarted = started,
                             !.events = Append(sent, FinalEvent(FinalData(parsed.value))),
                             !.finalSent = TRUE, !.fullText = <<>>, !.pc = "closed"]
             ELSE [st EXCEPT !.pos = @ + n, !.jsonStarted = started,
                             !.events = sent \o InvalidJsonEvents,
                             !.fullText = full, !.pc = InvalidJsonExit]
        ELSE [st EXCEPT !.pos = @ + n, !.jsonStarted = started,
                        !.events = sent, !.fullText = full]

\* stream/route.ts:269-275
RunEnd(st) ==
    [st EXCEPT !.events = @ \o EndOfStreamEvents(st.finalSent),
               !.pc = "closed", !.upstream = "ended"]

\* stream/route.ts:276-280
RunFail(st, e) ==
    [st EXCEPT !.events = Append(@, ErrorEvent(FailureMessage(e))),
               !.pc = "closed", !.upstream = "failed"]

\* each invocation, and the same invocation as it runs with no other under way
PairInit ==
    /\ runs \in [Invocations -> {[run |-> NewRun(t), alone |-> NewRun(t)] :
                                    t \in PairTexts}]
    /\ modelText = <<>>
    /\ pos = 0
    /\ upstream = "open"
    /\ fullText = <<>>
    /\ finalSent = FALSE
    /\ jsonStarted = FALSE
    /\ lastNarrationSentIndex = 0
    /\ events = <<>>
    /\ pc = "reading"
    /\ modelJson = Undefined
    /\ streamReport = Undefined
    /\ syncResponse = Undefined
    /\ renormalized = Undefined
    /\ RequestIdle
    /\ loading = FALSE
    /\ result = Null
    /\ approved = FALSE
    /\ systemStatus = "healthy"
    /\ selectedService = Null
    /\ gotFinal = FALSE
    /\ analysis = "idle"
    /\ analysesStarted = 0
    /\ approvedIn = 0
    /\ executePosts = <<>>
    /\ executionLogs = <<>>
    /\ recoveries = <<>>
    /\ recoveryInterval = 0

\* invocation i reads a non-empty chunk of n symbols
PairChunk(i, n) ==
    /\ runs[i].run.pc = "reading"
    /\ runs[i].run.pos + n <= Len(runs[i].run.modelText)
    /\ runs' = [runs EXCEPT
                   ![i].run = RunChunk(runs[i].run, BufferOf(runs, i), n),
                   ![i].alone = RunChunk(runs[i].alone, runs[i].alone.fullText, n)]
    /\ UNCHANGED <<streamVars, scoreVars, reqVars, uiVars>>

\* invocation i reads an empty chunk
PairEmptyChunk(i) ==
    /\ runs[i].run.pc = "reading"
    /\ UNCHANGED vars

\* the upstream of invocation i is done
PairEnd(i) ==
    /\ runs[i].run.pc = "reading"
    /\ runs' = [runs EXCEPT ![i].run = RunEnd(runs[i].run),
                            ![i].alone = RunEnd(runs[i].alone)]
    /\ UNCHANGED <<streamVars, scoreVars, reqVars, uiVars>>

\* the upstream of invocation i throws
PairFail(i) ==
    /\ runs[i].run.pc = "reading"
    /\ \E e \in UpstreamErrors :
          runs' = [runs EXCEPT ![i].run = RunFail(runs[i].run, e),
                               ![i].alone = RunFail(runs[i].alone, e)]
    /\ UNCHANGED <<streamVars, scoreVars, reqVars, uiVars>>

PairNext ==
    \E i \in Invocations :
        \/ \E n \in 1..PairFragLen : PairChunk(i, n)
        \/ PairEmptyChunk(i)
        \/ PairEnd(i)
        \/ PairFail(i)

PairSpec == PairInit /\ [][PairNext]_vars

-----------------------------------------------------------------------------
(* Termination and narration of the streaming route *)

\* C34: a streaming analysis whose upstream eventually ends or fails
\* eventually has closed the event channel with exactly one terminal event
\* (final or error), which is its last event; it never closes on token events
\* alone.
C34_EventuallyTerminal ==
    <>(/\ pc = "closed"
       /\ Cardinality(TerminalIndexes) = 1
       /\ IsTerminal(events[Len(events)]))

\* C34 witness: the upstream failed after narration was sent, and the channel
\* is closed on the one error event
C34_Witness ==
    /\ upstream = "failed"
    /\ pc = "closed"
    /\ TokenIndexes # {}
    /\ Cardinality(TerminalIndexes) = 1
    /\ events[Len(events)].type = "error"

\* C35: for every fragmentation, a token event is sent only while the text
\* delivered before the chunk holds no complete opening delimiter, and its text
\* is the chunk itself when the text delivered so far holds no opening
\* delimiter, and otherwise text that ends where the opening delimiter starts:
\* the JSON payload and the closing delimiter that follow the opening delimiter
\* are never sent as narration.
C35_NoPayloadNarrated ==
    [][\A k \in (Len(events) + 1)..Len(events') :
          events'[k].type = "token" =>
              /\ IndexOf(Delivered, OpenTag) = -1
              /\ LET start == IndexOf(Delivered', OpenTag)
                 IN  IF start = -1
                     THEN events'[k].text = Slice(Delivered', pos, pos')
                     ELSE \E a \in 0..start :
                              events'[k].text = Slice(Delivered', a, start)]_vars

\* C35 witness: narration was sent, the opening delimiter and a payload after
\* it have been delivered, and the route is still reading
C35_Witness ==
    /\ pc = "reading"
    /\ jsonStarted
    /\ TokenIndexes # {}
    /\ IndexOf(Delivered, OpenTag) > 0
    /\ IndexOf(Delivered, CloseTag) = -1
    /\ \E i \in (IndexOf(Delivered, OpenTag) + Len(OpenTag) + 1)..Len(Delivered) :
          Delivered[i] \in {Payload90, PayloadNull}

-----------------------------------------------------------------------------
(* Properties of the recovery the page simulates *)

\* the step in which the stabilisation timeout of run r fires
RunCompletes(r) ==
    /\ r \in 1..Len(recoveries)
    /\ recoveries[r].clock # StabilizedAt
    /\ recoveries'[r].clock = StabilizedAt

\* C33 (as claimed): systemStatus changes only along healthy -> incident ->
\* recovering -> healthy: it becomes recovering only from incident, and after
\* recovering it becomes healthy only when the stabilisation timeout of the
\* latest recovery run fires or when a new analysis is started.
C33_StatusLifecycle ==
    [][systemStatus' # systemStatus =>
          \/ systemStatus = "healthy" /\ systemStatus' = "incident"
          \/ systemStatus = "incident" /\ systemStatus' = "recovering"
          \/ /\ systemStatus = "recovering" /\ systemStatus' = "healthy"
             /\ RunCompletes(Len(recoveries))
          \/ /\ systemStatus' = "healthy"
             /\ analysesStarted' = analysesStarted + 1]_vars

\* the statuses of the services of a result, in order
ResultStatuses(report) ==
    IF IsArray(Field(report, "services"))
    THEN [i \in 1..Len(report.services.a) |->
             Field(report.services.a[i], "status")]
    ELSE <<>>

\* C36 (as claimed): when a recovery run completes (its stabilisation timeout
\* fires after its nine ticks and sets systemStatus to healthy) with no analysis
\* started since its click, every service of result has the status healthy.
C36_AllHealthyAtCompletion ==
    [][\A r \in 1..Len(recoveries) :
          (RunCompletes(r) /\ recoveries[r].analysis = analysesStarted) =>
              /\ systemStatus' = "healthy"
              /\ \A i \in DOMAIN ResultStatuses(result') :
                    ResultStatuses(result')[i] = StrV("healthy")]_vars

\* the step in which a timer callback of run r runs
TimerFires(r) ==
    /\ r \in 1..Len(recoveries)
    /\ recoveries'[r].clock # recoveries[r].clock

\* C37 (as claimed): a timer callback of a recovery run that was started before
\* the latest analysis (a step timeout, an interval tick or the stabilisation
\* timeout) leaves systemStatus, executionLogs and result as they are.
C37_EarlierTimersInert ==
    [][\A r \in 1..Len(recoveries) :
          (TimerFires(r) /\ recoveries[r].analysis < analysesStarted) =>
              UNCHANGED <<systemStatus, executionLogs, result>>]_vars

-----------------------------------------------------------------------------
(* Properties of the fallback of the page *)

\* the states of analyze() in which a POST to /api/analyze is in flight
FallbackStates == {"fallback", "catch-fallback"}

\* C38 (as claimed): within one analyze() call, /api/analyze is called only
\* when the stream delivered no final event, it is called whenever the stream
\* ended without one, and once a final event has been applied the answer of
\* /api/analyze does not replace result.
C38_FallbackIffNoFinal ==
    [][/\ (analysis' # analysis /\ analysis' \in FallbackStates) => ~gotFinal
       /\ (analysis = "streaming" /\ analysis' = "idle") => gotFinal
       /\ (gotFinal /\ analysis \in FallbackStates /\ analysis' = "idle") =>
              result' = result]_vars

\* C39 (as claimed): when the answer of the fallback POST /api/analyze changes
\* result or systemStatus, the new result is a report: it has no error member,
\* so an error response never becomes result and never starts an incident.
C39_OnlyReportsBecomeResult ==
    [][(/\ analysis \in FallbackStates
        /\ analysis' = "idle"
        /\ result' # result \/ systemStatus' # systemStatus) =>
           "error" \notin DOMAIN result']_vars

====
